---- MODULE Spec2Model ----
(***************************************************************************)
(* A model of the chess engine core: board and move representation,        *)
(* attack detection, move generation and the legality filter, applyMove,   *)
(* the evaluator, alpha-beta with quiescence, and the iterative-deepening  *)
(* root coordinator of the UCI loop.                                       *)
(***************************************************************************)
EXTENDS Integers, Sequences, FiniteSets, TLC

VARIABLES
    board,      \* the current BoardData of the game being played (engine.h BoardData)
    ply,        \* number of moves applied since the position was loaded
    lastMove,   \* the last Move handed to applyMove
    outcome,    \* "loaded" | "moved" | "threw": what the last operation did
    prev,       \* the board the last operation was applied to
    probe,      \* the result of the last direct applyMove call with a castling-flagged move
    pf,         \* the perft walk: stack of pending nodes and the per-depth counts
    sr,         \* the result of the last alphabetaTimed call made on the board
    pool,       \* the worker pool of the multi-thread diagnostic
    co,         \* the search thread of the UCI loop (the coordinator of the depth loop)
    wk,         \* the worker threads of the current depth iteration
    env         \* the clock and the UCI input: deadline passed, stopSearch

vars == <<board, ply, lastMove, outcome, prev, probe, pf, sr, pool, co, wk, env>>

(***************************************************************************)
(* engine.h: colours, piece types, squares                                 *)
(***************************************************************************)
WHITE == 1
BLACK == 0
EMPTY == -1

PAWN == 1
KNIGHT == 2
BISHOP == 3
ROOK == 4
QUEEN == 5
KING == 6
PIECE_NB == 7
SQUARE_NB == 64

A1 == 56
B1 == 57
C1 == 58
D1 == 59
E1 == 60
F1 == 61
G1 == 62
H1 == 63
A8 == 0
B8 == 1
C8 == 2
D8 == 3
E8 == 4
F8 == 5
G8 == 6
H8 == 7

\* sq >> 3 (arithmetic shift: floor division)
ROW(sq) == sq \div 8

\* sq & 7
COL(sq) == sq % 8

SQUARE(row, col) == row * 8 + col

TYPEtoCHAR(p) ==
    CASE p = EMPTY -> "."
      [] p = PAWN -> "p"
      [] p = KNIGHT -> "n"
      [] p = BISHOP -> "b"
      [] p = ROOK -> "r"
      [] p = QUEEN -> "q"
      [] p = KING -> "k"
      [] OTHER -> "e"

\* the 10x12 mailbox, read as mailbox(k) for k in 0..119
mailboxTable ==
    << -1, -1, -1, -1, -1, -1, -1, -1, -1, -1,
       -1, -1, -1, -1, -1, -1, -1, -1, -1, -1,
       -1,  0,  1,  2,  3,  4,  5,  6,  7, -1,
       -1,  8,  9, 10, 11, 12, 13, 14, 15, -1,
       -1, 16, 17, 18, 19, 20, 21, 22, 23, -1,
       -1, 24, 25, 26, 27, 28, 29, 30, 31, -1,
       -1, 32, 33, 34, 35, 36, 37, 38, 39, -1,
       -1, 40, 41, 42, 43, 44, 45, 46, 47, -1,
       -1, 48, 49, 50, 51, 52, 53, 54, 55, -1,
       -1, 56, 57, 58, 59, 60, 61, 62, 63, -1,
       -1, -1, -1, -1, -1, -1, -1, -1, -1, -1,
       -1, -1, -1, -1, -1, -1, -1, -1, -1, -1 >>

mailbox(k) == mailboxTable[k + 1]

mailbox64Table ==
    << 21, 22, 23, 24, 25, 26, 27, 28,
       31, 32, 33, 34, 35, 36, 37, 38,
       41, 42, 43, 44, 45, 46, 47, 48,
       51, 52, 53, 54, 55, 56, 57, 58,
       61, 62, 63, 64, 65, 66, 67, 68,
       71, 72, 73, 74, 75, 76, 77, 78,
       81, 82, 83, 84, 85, 86, 87, 88,
       91, 92, 93, 94, 95, 96, 97, 98 >>

mailbox64(sq) == mailbox64Table[sq + 1]

\* isupper / tolower / toupper on the piece letters
isupper(p) == p \in {"P", "N", "B", "R", "Q", "K"}

tolower(p) ==
    CASE p = "P" -> "p" [] p = "N" -> "n" [] p = "B" -> "b"
      [] p = "R" -> "r" [] p = "Q" -> "q" [] p = "K" -> "k"
      [] OTHER -> p

toupper(p) ==
    CASE p = "p" -> "P" [] p = "n" -> "N" [] p = "b" -> "B"
      [] p = "r" -> "R" [] p = "q" -> "Q" [] p = "k" -> "K"
      [] OTHER -> p

\* struct Move and its constructor; promotion '\0' is the empty string
Move(fr, fc, tr, tc, ep, castling, promo, sc) ==
    [fromRow |-> fr, fromCol |-> fc, toRow |-> tr, toCol |-> tc,
     isEnPassant |-> ep, isCastling |-> castling, promotion |-> promo, score |-> sc]

\* Move::operator==
MoveEq(this, other) ==
    /\ this.fromRow = other.fromRow /\ this.fromCol = other.fromCol
    /\ this.toRow = other.toRow /\ this.toCol = other.toCol

\* BoardData::PieceColor
PieceColor(b, sq) ==
    IF sq < 0 \/ sq >= 64 THEN SQUARE_NB
    ELSE IF b.pieces[sq] = "." THEN EMPTY
    ELSE IF isupper(b.pieces[sq]) THEN WHITE ELSE BLACK

\* BoardData::PieceType
PieceType(b, sq) ==
    IF sq < 0 \/ sq >= 64 THEN SQUARE_NB
    ELSE LET p == tolower(b.pieces[sq]) IN
         CASE b.pieces[sq] = "." -> EMPTY
           [] p = "p" -> PAWN
           [] p = "n" -> KNIGHT
           [] p = "b" -> BISHOP
           [] p = "r" -> ROOK
           [] p = "q" -> QUEEN
           [] p = "k" -> KING
           [] OTHER -> PIECE_NB

\* a BoardData value from its eight rows (top row first) and its other fields
MkBoard(rows, wtm, cK, cQ, ck, cq, ep, half, full) ==
    LET all == rows[1] \o rows[2] \o rows[3] \o rows[4] \o rows[5] \o rows[6] \o rows[7] \o rows[8]
    IN [pieces |-> [i \in 0..63 |-> all[i + 1]],
        whiteToMove |-> wtm,
        canCastleK |-> cK, canCastleQ |-> cQ, canCastlek |-> ck, canCastleq |-> cq,
        enPassantTarget |-> ep, halfmoveClock |-> half, fullmoveNumber |-> full]

EmptyRow == <<".", ".", ".", ".", ".", ".", ".", ".">>

getInitialBoard ==
    MkBoard(<< <<"r", "n", "b", "q", "k", "b", "n", "r">>,
               <<"p", "p", "p", "p", "p", "p", "p", "p">>,
               EmptyRow, EmptyRow, EmptyRow, EmptyRow,
               <<"P", "P", "P", "P", "P", "P", "P", "P">>,
               <<"R", "N", "B", "Q", "K", "B", "N", "R">> >>,
            TRUE, TRUE, TRUE, TRUE, TRUE, -1, 0, 1)

(***************************************************************************)
(* search-mt-copy.cpp: direction offsets, attacked, inCheck                *)
(***************************************************************************)
knightOffsets == <<-21, -19, -12, -8, 8, 12, 19, 21>>
bishopOffsets == <<-11, -9, 9, 11>>
rookOffsets == <<-10, -1, 1, 10>>
queenOffsets == <<-11, -10, -9, -1, 1, 9, 10, 11>>
kingOffsets == <<-11, -10, -9, -1, 1, 9, 10, 11>>

\* the offsets of a non-pawn piece type, and whether the inner while loop slides
OffsetsOf(pt) ==
    CASE pt = KNIGHT -> knightOffsets
      [] pt = BISHOP -> bishopOffsets
      [] pt = ROOK -> rookOffsets
      [] pt = QUEEN -> queenOffsets
      [] pt = KING -> kingOffsets
      [] OTHER -> <<>>

Slides(pt) == pt \in {BISHOP, ROOK, QUEEN}

\* the inner while (true) loop of attacked for one direction, from square n
RECURSIVE RayHits(_, _, _, _, _)
RayHits(b, n, off, sq, slides) ==
    LET t == mailbox(mailbox64(n) + off) IN
    IF t = -1 THEN FALSE
    ELSE IF t = sq THEN TRUE
    ELSE IF PieceColor(b, t) # EMPTY THEN FALSE
    ELSE IF slides THEN RayHits(b, t, off, sq, slides)
    ELSE FALSE

\* the pawn branch shared by attacked and pawn_attack
PawnHits(i, sq, side) ==
    IF side = WHITE
    THEN (COL(i) # 0 /\ i - 9 = sq) \/ (COL(i) # 7 /\ i - 7 = sq)
    ELSE (COL(i) # 0 /\ i + 7 = sq) \/ (COL(i) # 7 /\ i + 9 = sq)

attacked(b, sq, side) ==
    \E i \in 0..63 :
        /\ PieceColor(b, i) = side
        /\ IF PieceType(b, i) = PAWN
           THEN PawnHits(i, sq, side)
           ELSE \E j \in DOMAIN OffsetsOf(PieceType(b, i)) :
                    RayHits(b, i, OffsetsOf(PieceType(b, i))[j], sq, Slides(PieceType(b, i)))

Opposite(side) == IF side = WHITE THEN BLACK ELSE WHITE

KingSquares(b, side) == {i \in 0..63 : PieceType(b, i) = KING /\ PieceColor(b, i) = side}

Min(S) == CHOOSE x \in S : \A y \in S : x <= y

inCheck(b, side) ==
    IF KingSquares(b, side) = {} THEN TRUE
    ELSE attacked(b, Min(KingSquares(b, side)), Opposite(side))

(***************************************************************************)
(* engine.cpp: applyMove                                                   *)
(***************************************************************************)
\* the legality checks applyMove makes on a move flagged isCastling: TRUE when
\* it throws std::invalid_argument("Illegal move attempted")
CastlingThrows(b, move) ==
    IF b.whiteToMove
    THEN \/ (move.toCol = 6 /\ ~b.canCastleK) \/ (move.toCol = 2 /\ ~b.canCastleQ)
         \/ /\ move.toCol = 6
            /\ \/ PieceColor(b, F1) # EMPTY \/ PieceColor(b, G1) # EMPTY
               \/ attacked(b, F1, BLACK) \/ attacked(b, G1, BLACK)
         \/ /\ move.toCol = 2
            /\ \/ PieceColor(b, D1) # EMPTY \/ PieceColor(b, C1) # EMPTY \/ PieceColor(b, B1) # EMPTY
               \/ attacked(b, D1, BLACK) \/ attacked(b, C1, BLACK) \/ attacked(b, B1, BLACK)
    ELSE \/ (move.toCol = 6 /\ ~b.canCastlek) \/ (move.toCol = 2 /\ ~b.canCastleq)
         \/ /\ move.toCol = 6
            /\ \/ PieceColor(b, F8) # EMPTY \/ PieceColor(b, G8) # EMPTY
               \/ attacked(b, F8, WHITE) \/ attacked(b, G8, WHITE)
         \/ /\ move.toCol = 2
            /\ \/ PieceColor(b, D8) # EMPTY \/ PieceColor(b, C8) # EMPTY \/ PieceColor(b, B8) # EMPTY
               \/ attacked(b, D8, WHITE) \/ attacked(b, C8, WHITE) \/ attacked(b, B8, WHITE)

\* the rook relocation of a castling move (the king is moved as a normal piece)
CastleRook(pieces, to) ==
    CASE to = G1 -> [pieces EXCEPT ![H1] = ".", ![F1] = "R"]
      [] to = C1 -> [pieces EXCEPT ![A1] = ".", ![D1] = "R"]
      [] to = G8 -> [pieces EXCEPT ![H8] = ".", ![F8] = "r"]
      [] to = C8 -> [pieces EXCEPT ![A8] = ".", ![D8] = "r"]
      [] OTHER -> pieces

Abs(x) == IF x < 0 THEN -x ELSE x

\* a castling right survives a move only when the move neither starts on the
\* king's origin square nor starts or ends on the rook's origin square
RightKeptWhenRookCaptured(from, to, king, rook) == from # king /\ from # rook

RightKept(from, to, king, rook) == from # king /\ from # rook /\ to # rook

\* the en passant branch: the captured pawn stands on the mover's rank and the
\* destination's file
RemoveNothing(pieces, move) == pieces

RemoveEnPassantPawn(pieces, move) ==
    [pieces EXCEPT ![SQUARE(move.fromRow, move.toCol)] = "."]

\* applyMove: [threw |-> TRUE, board |-> the argument] when it throws,
\* else [threw |-> FALSE, board |-> the returned board]
applyMove(b, move) ==
    LET from == SQUARE(move.fromRow, move.fromCol)
        to == SQUARE(move.toRow, move.toCol)
        movingPiece == b.pieces[from]
        isCapture == b.pieces[to] # "." \/ move.isEnPassant
        p1 == IF move.isEnPassant THEN RemoveEnPassantPawn(b.pieces, move) ELSE b.pieces
        p2 == [p1 EXCEPT ![to] = IF move.promotion # ""
                                  THEN (IF b.whiteToMove THEN toupper(move.promotion)
                                                         ELSE tolower(move.promotion))
                                  ELSE movingPiece]
        p3 == [p2 EXCEPT ![from] = "."]
        p4 == IF move.isCastling THEN CastleRook(p3, to) ELSE p3
        wtm == ~b.whiteToMove
    IN  IF move.isCastling /\ CastlingThrows(b, move) THEN [threw |-> TRUE, board |-> b]
        ELSE IF move.isEnPassant /\ PieceColor(b, to) # EMPTY THEN [threw |-> TRUE, board |-> b]
        ELSE [threw |-> FALSE,
              board |->
                [pieces |-> p4,
                 whiteToMove |-> wtm,
                 canCastleK |-> b.canCastleK /\ RightKept(from, to, E1, H1),
                 canCastleQ |-> b.canCastleQ /\ RightKept(from, to, E1, A1),
                 canCastlek |-> b.canCastlek /\ RightKept(from, to, E8, H8),
                 canCastleq |-> b.canCastleq /\ RightKept(from, to, E8, A8),
                 enPassantTarget |-> IF tolower(movingPiece) = "p" /\ Abs(from - to) = 16
                                     THEN (from + to) \div 2 ELSE 0,
                 halfmoveClock |-> IF tolower(movingPiece) = "p" \/ isCapture
                                   THEN 0 ELSE b.halfmoveClock + 1,
                 fullmoveNumber |-> IF wtm THEN b.fullmoveNumber + 1 ELSE b.fullmoveNumber]]

(***************************************************************************)
(* search-mt-copy.cpp: generatePseudoLegalMoves, generateMoves             *)
(***************************************************************************)
\* a promotion to the queen alone
PromotionMovesQueenOnly(i, t) ==
    <<Move(ROW(i), COL(i), ROW(t), COL(t), FALSE, FALSE, TYPEtoCHAR(QUEEN), 1000000 + (QUEEN * 10))>>

\* the four promotion moves pushed by the "for k = KNIGHT..QUEEN" loops
PromotionMoves(i, t) ==
    [k \in 1..4 |-> Move(ROW(i), COL(i), ROW(t), COL(t), FALSE, FALSE,
                         TYPEtoCHAR(k + 1), 1000000 + ((k + 1) * 10))]

\* a capture with its MVV/LVA score
CaptureMove(b, i, t) ==
    Move(ROW(i), COL(i), ROW(t), COL(t), FALSE, FALSE, "",
         1000000 + (PieceType(b, t) * 10) - PieceType(b, i))

QuietMove(i, t) == Move(ROW(i), COL(i), ROW(t), COL(t), FALSE, FALSE, "", 0)

\* one pawn capture direction: onto t when the piece there has colour xside
PawnCapture(b, i, t, xside, lastRow) ==
    IF PieceColor(b, t) = xside
    THEN (IF ROW(t) = lastRow THEN PromotionMoves(i, t) ELSE <<CaptureMove(b, i, t)>>)
    ELSE <<>>

\* mutant of PawnPushes: the double push from the starting rank is forgotten
PawnPushesSingleOnly(b, i, side) ==
    IF side = WHITE
    THEN IF PieceType(b, i - 8) = EMPTY
         THEN (IF ROW(i - 8) = 0 THEN PromotionMoves(i, i - 8) ELSE <<QuietMove(i, i - 8)>>)
         ELSE <<>>
    ELSE IF PieceType(b, i + 8) = EMPTY
         THEN (IF ROW(i + 8) = 7 THEN PromotionMoves(i, i + 8) ELSE <<QuietMove(i, i + 8)>>)
         ELSE <<>>

\* the pushes of the pawn on i (quiet moves and quiet promotions)
PawnPushes(b, i, side) ==
    IF side = WHITE
    THEN IF PieceType(b, i - 8) = EMPTY
         THEN (IF ROW(i - 8) = 0 THEN PromotionMoves(i, i - 8) ELSE <<QuietMove(i, i - 8)>>)
              \o (IF i >= 48 /\ PieceType(b, i - 16) = EMPTY THEN <<QuietMove(i, i - 16)>> ELSE <<>>)
         ELSE <<>>
    ELSE IF PieceType(b, i + 8) = EMPTY
         THEN (IF ROW(i + 8) = 7 THEN PromotionMoves(i, i + 8) ELSE <<QuietMove(i, i + 8)>>)
              \o (IF i < 16 /\ PieceType(b, i + 16) = EMPTY THEN <<QuietMove(i, i + 16)>> ELSE <<>>)
         ELSE <<>>

\* the captures of the pawn on i, left capture first
PawnCaptures(b, i, side) ==
    IF side = WHITE
    THEN (IF COL(i) # 0 THEN PawnCapture(b, i, i - 9, BLACK, 0) ELSE <<>>)
         \o (IF COL(i) # 7 THEN PawnCapture(b, i, i - 7, BLACK, 0) ELSE <<>>)
    ELSE (IF COL(i) # 0 THEN PawnCapture(b, i, i + 7, WHITE, 7) ELSE <<>>)
         \o (IF COL(i) # 7 THEN PawnCapture(b, i, i + 9, WHITE, 7) ELSE <<>>)

\* the inner while (true) loop of the generators for one direction, from square n;
\* quiets is FALSE in generatePseudoLegalCaptures, which pushes captures only
RECURSIVE RayMoves(_, _, _, _, _, _, _)
RayMoves(b, i, n, off, xside, slides, quiets) ==
    LET t == mailbox(mailbox64(n) + off) IN
    IF t = -1 THEN <<>>
    ELSE IF PieceColor(b, t) # EMPTY
         THEN (IF PieceColor(b, t) = xside THEN <<CaptureMove(b, i, t)>> ELSE <<>>)
    ELSE (IF quiets THEN <<QuietMove(i, t)>> ELSE <<>>)
         \o (IF slides THEN RayMoves(b, i, t, off, xside, slides, quiets) ELSE <<>>)

RECURSIVE PieceMoves(_, _, _, _, _, _)
PieceMoves(b, i, offs, j, xside, quiets) ==
    IF j > Len(offs) THEN <<>>
    ELSE RayMoves(b, i, i, offs[j], xside, Slides(PieceType(b, i)), quiets)
         \o PieceMoves(b, i, offs, j + 1, xside, quiets)

\* the body of the "for i" loop over the squares
SquareMoves(b, i, side, quiets) ==
    IF PieceColor(b, i) # side THEN <<>>
    ELSE IF PieceType(b, i) = PAWN
    THEN (IF quiets THEN PawnPushes(b, i, side) ELSE <<>>) \o PawnCaptures(b, i, side)
    ELSE PieceMoves(b, i, OffsetsOf(PieceType(b, i)), 1, Opposite(side), quiets)

RECURSIVE BoardMoves(_, _, _, _, _)
BoardMoves(b, lo, hi, side, quiets) ==
    IF lo = hi THEN SquareMoves(b, lo, side, quiets)
    ELSE LET mid == (lo + hi) \div 2
         IN  BoardMoves(b, lo, mid, side, quiets) \o BoardMoves(b, mid + 1, hi, side, quiets)

\* mutant of CastlingMoves: the attacked(...) tests of the king's squares are dropped
CastlingMovesNoAttackTest(b) ==
    (IF /\ b.canCastleK /\ b.whiteToMove
        /\ b.pieces[F1] = "." /\ b.pieces[G1] = "." /\ b.pieces[E1] = "K" /\ b.pieces[H1] = "R"
     THEN <<Move(ROW(E1), COL(E1), ROW(G1), COL(G1), FALSE, TRUE, "", 0)>> ELSE <<>>)
    \o
    (IF /\ b.canCastleQ /\ b.whiteToMove
        /\ b.pieces[D1] = "." /\ b.pieces[C1] = "." /\ b.pieces[B1] = "."
        /\ b.pieces[E1] = "K" /\ b.pieces[A1] = "R"
     THEN <<Move(ROW(E1), COL(E1), ROW(C1), COL(C1), FALSE, TRUE, "", 0)>> ELSE <<>>)
    \o
    (IF /\ b.canCastlek /\ ~b.whiteToMove
        /\ b.pieces[F8] = "." /\ b.pieces[G8] = "." /\ b.pieces[E8] = "k" /\ b.pieces[H8] = "r"
     THEN <<Move(ROW(E8), COL(E8), ROW(G8), COL(G8), FALSE, TRUE, "", 0)>> ELSE <<>>)
    \o
    (IF /\ b.canCastleq /\ ~b.whiteToMove
        /\ b.pieces[D8] = "." /\ b.pieces[C8] = "." /\ b.pieces[B8] = "."
        /\ b.pieces[E8] = "k" /\ b.pieces[A8] = "r"
     THEN <<Move(ROW(E8), COL(E8), ROW(C8), COL(C8), FALSE, TRUE, "", 0)>> ELSE <<>>)

\* the four castling blocks of generatePseudoLegalMoves
CastlingMoves(b) ==
    (IF /\ b.canCastleK /\ b.whiteToMove
        /\ b.pieces[F1] = "." /\ b.pieces[G1] = "." /\ b.pieces[E1] = "K" /\ b.pieces[H1] = "R"
        /\ ~(attacked(b, E1, BLACK) \/ attacked(b, F1, BLACK) \/ attacked(b, G1, BLACK))
     THEN <<Move(ROW(E1), COL(E1), ROW(G1), COL(G1), FALSE, TRUE, "", 0)>> ELSE <<>>)
    \o
    (IF /\ b.canCastleQ /\ b.whiteToMove
        /\ b.pieces[D1] = "." /\ b.pieces[C1] = "." /\ b.pieces[B1] = "."
        /\ b.pieces[E1] = "K" /\ b.pieces[A1] = "R"
        /\ ~(attacked(b, E1, BLACK) \/ attacked(b, B1, BLACK) \/ attacked(b, C1, BLACK)
             \/ attacked(b, D1, BLACK))
     THEN <<Move(ROW(E1), COL(E1), ROW(C1), COL(C1), FALSE, TRUE, "", 0)>> ELSE <<>>)
    \o
    (IF /\ b.canCastlek /\ ~b.whiteToMove
        /\ b.pieces[F8] = "." /\ b.pieces[G8] = "." /\ b.pieces[E8] = "k" /\ b.pieces[H8] = "r"
        /\ ~(attacked(b, E8, WHITE) \/ attacked(b, F8, WHITE) \/ attacked(b, G8, WHITE))
     THEN <<Move(ROW(E8), COL(E8), ROW(G8), COL(G8), FALSE, TRUE, "", 0)>> ELSE <<>>)
    \o
    (IF /\ b.canCastleq /\ ~b.whiteToMove
        /\ b.pieces[D8] = "." /\ b.pieces[C8] = "." /\ b.pieces[B8] = "."
        /\ b.pieces[E8] = "k" /\ b.pieces[A8] = "r"
        /\ ~(attacked(b, E8, WHITE) \/ attacked(b, B8, BLACK) \/ attacked(b, C8, BLACK)
             \/ attacked(b, D8, BLACK))
     THEN <<Move(ROW(E8), COL(E8), ROW(C8), COL(C8), FALSE, TRUE, "", 0)>> ELSE <<>>)

\* the en passant block of both generators
EnPassantMoves(b) ==
    LET target == b.enPassantTarget
        targetRow == ROW(target)
        targetCol == COL(target)
        score == 1000000 + (PAWN * 10) - PAWN
    IN  IF target = -1 THEN <<>>
        ELSE IF b.whiteToMove /\ targetRow = 2
        THEN (IF targetCol # 0 /\ b.pieces[target + 7] = "P"
              THEN <<Move(targetRow + 1, targetCol - 1, targetRow, targetCol, TRUE, FALSE, "", score)>>
              ELSE <<>>)
             \o (IF targetCol # 7 /\ b.pieces[target + 9] = "P"
                 THEN <<Move(targetRow + 1, targetCol + 1, targetRow, targetCol, TRUE, FALSE, "", score)>>
                 ELSE <<>>)
        ELSE IF ~b.whiteToMove /\ targetRow = 5
        THEN (IF targetCol # 0 /\ b.pieces[target - 9] = "p"
              THEN <<Move(targetRow - 1, targetCol - 1, targetRow, targetCol, TRUE, FALSE, "", score)>>
              ELSE <<>>)
             \o (IF targetCol # 7 /\ b.pieces[target - 7] = "p"
                 THEN <<Move(targetRow - 1, targetCol + 1, targetRow, targetCol, TRUE, FALSE, "", score)>>
                 ELSE <<>>)
        ELSE <<>>

SideToMove(b) == IF b.whiteToMove THEN WHITE ELSE BLACK

generatePseudoLegalMoves(b) ==
    BoardMoves(b, 0, 63, SideToMove(b), TRUE) \o CastlingMoves(b) \o EnPassantMoves(b)

generatePseudoLegalCaptures(b) ==
    BoardMoves(b, 0, 63, SideToMove(b), FALSE) \o EnPassantMoves(b)

\* the legality filter loop: keep m when the mover is not in check after it
LegalFilter(b, pseudoMoves, side) ==
    SelectSeq(pseudoMoves, LAMBDA m : ~inCheck(applyMove(b, m).board, side))

\* TRUE when an applyMove inside the filter loop throws, so that the generator
\* returns no list and the exception propagates to its caller
FilterThrows(b, pseudoMoves) ==
    \E k \in 1..Len(pseudoMoves) : applyMove(b, pseudoMoves[k]).threw

generateMovesThrows(b) == FilterThrows(b, generatePseudoLegalMoves(b))

\* mutant of generateMoves: the legality filter is skipped
generateMovesUnfiltered(b) == generatePseudoLegalMoves(b)

\* the list generateMoves returns (when it does not throw)
generateMoves(b) == LegalFilter(b, generatePseudoLegalMoves(b), SideToMove(b))

generateCapturesThrows(b) == FilterThrows(b, generatePseudoLegalCaptures(b))

\* mutant of generateCaptures: the quiet moves are returned as well
generateCapturesAndQuiets(b) == LegalFilter(b, generatePseudoLegalMoves(b), SideToMove(b))

generateCaptures(b) == LegalFilter(b, generatePseudoLegalCaptures(b), SideToMove(b))

(***************************************************************************)
(* Perft: the walk of the tree of generated moves from the initial         *)
(* position, counting the move sequences of each length                    *)
(***************************************************************************)
\* the numbers of move sequences of length 1, 2 and 3 from the initial position
PerftExpected == <<20, 400, 8902>>

PerftDepth == Len(PerftExpected)

\* the boards reached by applying each move of ms to b, at depth d
RECURSIVE Children(_, _, _, _)
Children(b, ms, k, d) ==
    IF k > Len(ms) THEN <<>>
    ELSE <<[b |-> applyMove(b, ms[k]).board, d |-> d]>> \o Children(b, ms, k + 1, d)

Idle == [fromRow |-> 0, fromCol |-> 0, toRow |-> 0, toCol |-> 0,
         isEnPassant |-> FALSE, isCastling |-> FALSE, promotion |-> "", score |-> 0]

NoProbe == [called |-> FALSE, threw |-> FALSE, move |-> Idle, on |-> getInitialBoard,
            board |-> getInitialBoard]

NoPerft == [stack |-> <<>>, counts |-> <<>>, threw |-> FALSE]

\* no search has been run, no pool and no search thread exist
NoSearch == [called |-> FALSE, on |-> getInitialBoard, depth |-> 0, score |-> 0, nodes |-> 0, pv |-> <<>>]
NoPool == [pc |-> "off"]
NoCoordinator == [pc |-> "off"]
NoWorkers == <<>>
NoEnv == [expired |-> FALSE, stopSearch |-> FALSE]

PerftInit ==
    /\ board = getInitialBoard
    /\ ply = 0
    /\ lastMove = Idle
    /\ outcome = "loaded"
    /\ prev = getInitialBoard
    /\ probe = NoProbe
    /\ pf = [stack |-> <<[b |-> getInitialBoard, d |-> 0]>>,
             counts |-> [k \in 1..PerftDepth |-> 0],
             threw |-> FALSE]
    /\ sr = NoSearch /\ pool = NoPool /\ co = NoCoordinator /\ wk = NoWorkers /\ env = NoEnv

\* visit the node on top of the stack: count its moves and push its children
PerftStep ==
    /\ pf.stack # <<>>
    /\ ~pf.threw
    /\ LET top == pf.stack[Len(pf.stack)]
           rest == SubSeq(pf.stack, 1, Len(pf.stack) - 1)
           ms == generateMoves(top.b)
       IN  IF generateMovesThrows(top.b)
           THEN pf' = [pf EXCEPT !.threw = TRUE]
           ELSE pf' = [pf EXCEPT
                         !.counts[top.d + 1] = @ + Len(ms),
                         !.stack = IF top.d + 1 < PerftDepth
                                   THEN rest \o Children(top.b, ms, 1, top.d + 1)
                                   ELSE rest]
    /\ UNCHANGED <<board, ply, lastMove, outcome, prev, probe, sr, pool, co, wk, env>>

PerftNext == PerftStep

SpecPerft == PerftInit /\ [][PerftNext]_vars

\* C8: when the walk from the initial position is complete, the numbers of move
\* sequences of length 1, 2 and 3 are exactly 20, 400 and 8902
PerftCounts == (pf.stack = <<>> /\ ~pf.threw) => pf.counts = PerftExpected

\* the walk has finished, every node of depth 0..2 having been expanded
PerftFinished == pf.stack = <<>> /\ ~pf.threw /\ pf.counts[PerftDepth] > 0

(***************************************************************************)
(* The game: positions loaded from FEN (fen.cpp loadFEN), moves returned   *)
(* by generateMoves applied with applyMove, and direct applyMove calls     *)
(* with a move flagged isCastling                                          *)
(***************************************************************************)
MaxPly == 2

\* 4r1k1/8/8/8/8/8/8/4K2R w K - 0 1: the white king is in check on e1 and
\* holds the kingside right
FenCheck ==
    MkBoard(<< <<".", ".", ".", ".", "r", ".", "k", ".">>,
               EmptyRow, EmptyRow, EmptyRow, EmptyRow, EmptyRow, EmptyRow,
               <<".", ".", ".", ".", "K", ".", ".", "R">> >>,
            TRUE, TRUE, FALSE, FALSE, FALSE, -1, 0, 1)

\* 4k2r/8/8/8/8/8/8/4K2R w Kk - 0 1
FenCastleK ==
    MkBoard(<< <<".", ".", ".", ".", "k", ".", ".", "r">>,
               EmptyRow, EmptyRow, EmptyRow, EmptyRow, EmptyRow, EmptyRow,
               <<".", ".", ".", ".", "K", ".", ".", "R">> >>,
            TRUE, TRUE, FALSE, TRUE, FALSE, -1, 0, 1)

\* r3k3/8/8/8/8/8/8/R3K3 w Qq - 0 1
FenCastleQ ==
    MkBoard(<< <<"r", ".", ".", ".", "k", ".", ".", ".">>,
               EmptyRow, EmptyRow, EmptyRow, EmptyRow, EmptyRow, EmptyRow,
               <<"R", ".", ".", ".", "K", ".", ".", ".">> >>,
            TRUE, FALSE, TRUE, FALSE, TRUE, -1, 0, 1)

\* 5rk1/8/8/8/8/8/8/4K2R w K - 0 1: a black rook covers f1
FenF1Covered ==
    MkBoard(<< <<".", ".", ".", ".", ".", "r", "k", ".">>,
               EmptyRow, EmptyRow, EmptyRow, EmptyRow, EmptyRow, EmptyRow,
               <<".", ".", ".", ".", "K", ".", ".", "R">> >>,
            TRUE, TRUE, FALSE, FALSE, FALSE, -1, 0, 1)

\* r3k3/8/8/8/8/8/8/3RK3 b q - 0 1: a white rook covers d8
FenD8Covered ==
    MkBoard(<< <<"r", ".", ".", ".", "k", ".", ".", ".">>,
               EmptyRow, EmptyRow, EmptyRow, EmptyRow, EmptyRow, EmptyRow,
               <<".", ".", ".", "R", "K", ".", ".", ".">> >>,
            FALSE, FALSE, FALSE, FALSE, TRUE, -1, 0, 1)

\* 4k3/8/8/3pP3/8/8/8/4K3 w - d6 0 3: the en passant capture e5d6 is available
FenEnPassant ==
    MkBoard(<< <<".", ".", ".", ".", "k", ".", ".", ".">>,
               EmptyRow, EmptyRow,
               <<".", ".", ".", "p", "P", ".", ".", ".">>,
               EmptyRow, EmptyRow, EmptyRow,
               <<".", ".", ".", ".", "K", ".", ".", ".">> >>,
            TRUE, FALSE, FALSE, FALSE, FALSE, 19, 0, 3)

\* rnbqkbnr/ppp1pppp/8/3pP3/8/8/PPPP1PPP/RNBQKBNR w KQkq d6 0 3: the en passant capture e5d6 is available
FenS3 ==
    MkBoard(<< <<"r", "n", "b", "q", "k", "b", "n", "r">>,
               <<"p", "p", "p", ".", "p", "p", "p", "p">>,
               EmptyRow,
               <<".", ".", ".", "p", "P", ".", ".", ".">>,
               EmptyRow,
               EmptyRow,
               <<"P", "P", "P", "P", ".", "P", "P", "P">>,
               <<"R", "N", "B", "Q", "K", "B", "N", "R">> >>,
            TRUE, TRUE, TRUE, TRUE, TRUE, 19, 0, 3)

\* 7k/P7/8/8/8/8/7p/7K w - - 0 1: both sides have a pawn one step from promotion
FenS4 ==
    MkBoard(<< <<".", ".", ".", ".", ".", ".", ".", "k">>,
               <<"P", ".", ".", ".", ".", ".", ".", ".">>,
               EmptyRow,
               EmptyRow,
               EmptyRow,
               EmptyRow,
               <<".", ".", ".", ".", ".", ".", ".", "p">>,
               <<".", ".", ".", ".", ".", ".", ".", "K">> >>,
            TRUE, FALSE, FALSE, FALSE, FALSE, -1, 0, 1)

\* 4k3/8/8/8/3p4/8/4P3/4K3 w - - 0 1: after e2e4 black can capture en passant on e3
FenDoublePush ==
    MkBoard(<< <<".", ".", ".", ".", "k", ".", ".", ".">>,
               EmptyRow,
               EmptyRow,
               EmptyRow,
               <<".", ".", ".", "p", ".", ".", ".", ".">>,
               EmptyRow,
               <<".", ".", ".", ".", "P", ".", ".", ".">>,
               <<".", ".", ".", ".", "K", ".", ".", ".">> >>,
            TRUE, FALSE, FALSE, FALSE, FALSE, -1, 0, 1)

\* 1n5k/P7/8/8/8/8/p7/1N5K w - - 0 1: each side's pawn can promote by a push and by a capture
FenPromotions ==
    MkBoard(<< <<".", "n", ".", ".", ".", ".", ".", "k">>,
               <<"P", ".", ".", ".", ".", ".", ".", ".">>,
               EmptyRow,
               EmptyRow,
               EmptyRow,
               EmptyRow,
               <<"p", ".", ".", ".", ".", ".", ".", ".">>,
               <<".", "N", ".", ".", ".", ".", ".", "K">> >>,
            TRUE, FALSE, FALSE, FALSE, FALSE, -1, 0, 1)

StartBoards ==
    {FenCheck, FenCastleK, FenCastleQ, FenF1Covered, FenD8Covered, FenEnPassant,
     FenS3, FenS4, FenDoublePush, FenPromotions}

\* the castling-flagged moves a caller of applyMove can hand in
CastlingInputs ==
    {Move(ROW(E1), COL(E1), ROW(G1), COL(G1), FALSE, TRUE, "", 0),
     Move(ROW(E1), COL(E1), ROW(C1), COL(C1), FALSE, TRUE, "", 0),
     Move(ROW(E8), COL(E8), ROW(G8), COL(G8), FALSE, TRUE, "", 0),
     Move(ROW(E8), COL(E8), ROW(C8), COL(C8), FALSE, TRUE, "", 0)}

Init ==
    /\ board \in StartBoards
    /\ ply = 0
    /\ lastMove = Idle
    /\ outcome = "loaded"
    /\ prev = board
    /\ probe = NoProbe
    /\ pf = NoPerft
    /\ sr = NoSearch /\ pool = NoPool /\ co = NoCoordinator /\ wk = NoWorkers /\ env = NoEnv

\* board = applyMove(board, m) for a move m returned by generateMoves(board)
MovePlayed ==
    /\ ~generateMovesThrows(board)
    /\ LET ms == generateMoves(board) IN
       \E k \in 1..Len(ms) :
           /\ board' = applyMove(board, ms[k]).board
           /\ lastMove' = ms[k]
    /\ prev' = board
    /\ outcome' = "moved"
    /\ ply' = ply + 1
    /\ probe' = NoProbe
    /\ sr' = NoSearch
    /\ UNCHANGED <<pf, pool, co, wk, env>>

\* the game goes on by one move
Play == ply < MaxPly /\ MovePlayed

\* a direct call applyMove(board, m) with m flagged isCastling; the caller keeps
\* the returned board, or sees the exception, until the game goes on
ApplyCastling ==
    /\ \E m \in CastlingInputs :
           LET r == applyMove(board, m) IN
           probe' = [called |-> TRUE, threw |-> r.threw, move |-> m, on |-> board,
                     board |-> r.board]
    /\ UNCHANGED <<board, ply, lastMove, outcome, prev, pf, sr, pool, co, wk, env>>

Next == Play \/ ApplyCastling

Spec == Init /\ [][Next]_vars

(***************************************************************************)
(* Static evaluation: search.h tables, heuristics.h EvalMatrix and         *)
(* evaluate with its helpers (search-mt-copy.cpp)                          *)
(***************************************************************************)
DOUBLED_PAWN_PENALTY == 10
ISOLATED_PAWN_PENALTY == 20
BACKWARDS_PAWN_PENALTY == 8
PASSED_PAWN_BONUS == 20
ROOK_SEMI_OPEN_FILE_BONUS == 10
ROOK_OPEN_FILE_BONUS == 15
ROOK_ON_SEVENTH_BONUS == 20
FILE_A == 1
FILE_B == 2
FILE_C == 3
FILE_F == 6
FILE_G == 7
FILE_H == 8

\* INF = std::numeric_limits<int>::max()
INF == 2147483647

\* piece_value[PIECE_NB], indexed by piece type 0..6
piece_valueTable == << 0, 100, 320, 330, 500, 900, 0 >>
piece_value(pt) == piece_valueTable[pt + 1]

pawn_pcsqTable ==
    <<   0,   0,   0,   0,   0,   0,   0,   0,
         5,  10,  15,  20,  20,  15,  10,   5,
         4,   8,  12,  16,  16,  12,   8,   4,
         3,   6,   9,  12,  12,   9,   6,   3,
         2,   4,   6,   8,   8,   6,   4,   2,
         1,   2,   3, -10, -10,   3,   2,   1,
         0,   0,   0, -40, -40,   0,   0,   0,
         0,   0,   0,   0,   0,   0,   0,   0 >>
pawn_pcsq(sq) == pawn_pcsqTable[sq + 1]

knight_pcsqTable ==
    << -10, -10, -10, -10, -10, -10, -10, -10,
       -10,   0,   0,   0,   0,   0,   0, -10,
       -10,   0,   5,   5,   5,   5,   0, -10,
       -10,   0,   5,  10,  10,   5,   0, -10,
       -10,   0,   5,  10,  10,   5,   0, -10,
       -10,   0,   5,   5,   5,   5,   0, -10,
       -10,   0,   0,   0,   0,   0,   0, -10,
       -10, -30, -10, -10, -10, -10, -30, -10 >>
knight_pcsq(sq) == knight_pcsqTable[sq + 1]

bishop_pcsqTable ==
    << -10, -10, -10, -10, -10, -10, -10, -10,
       -10,   0,   0,   0,   0,   0,   0, -10,
       -10,   0,   5,   5,   5,   5,   0, -10,
       -10,   0,   5,  10,  10,   5,   0, -10,
       -10,   0,   5,  10,  10,   5,   0, -10,
       -10,   0,   5,   5,   5,   5,   0, -10,
       -10,   0,   0,   0,   0,   0,   0, -10,
       -10, -10, -20, -10, -10, -20, -10, -10 >>
bishop_pcsq(sq) == bishop_pcsqTable[sq + 1]

king_pcsqTable ==
    << -40, -40, -40, -40, -40, -40, -40, -40,
       -40, -40, -40, -40, -40, -40, -40, -40,
       -40, -40, -40, -40, -40, -40, -40, -40,
       -40, -40, -40, -40, -40, -40, -40, -40,
       -40, -40, -40, -40, -40, -40, -40, -40,
       -40, -40, -40, -40, -40, -40, -40, -40,
       -20, -20, -20, -20, -20, -20, -20, -20,
         0,  20,  40, -20,   0, -20,  40,  20 >>
king_pcsq(sq) == king_pcsqTable[sq + 1]

king_endgame_pcsqTable ==
    <<   0,  10,  20,  30,  30,  20,  10,   0,
        10,  20,  30,  40,  40,  30,  20,  10,
        20,  30,  40,  50,  50,  40,  30,  20,
        30,  40,  50,  60,  60,  50,  40,  30,
        30,  40,  50,  60,  60,  50,  40,  30,
        20,  30,  40,  50,  50,  40,  30,  20,
        10,  20,  30,  40,  40,  30,  20,  10,
         0,  10,  20,  30,  30,  20,  10,   0 >>
king_endgame_pcsq(sq) == king_endgame_pcsqTable[sq + 1]

mirrorTable ==
    <<  56,  57,  58,  59,  60,  61,  62,  63,
        48,  49,  50,  51,  52,  53,  54,  55,
        40,  41,  42,  43,  44,  45,  46,  47,
        32,  33,  34,  35,  36,  37,  38,  39,
        24,  25,  26,  27,  28,  29,  30,  31,
        16,  17,  18,  19,  20,  21,  22,  23,
         8,   9,  10,  11,  12,  13,  14,  15,
         0,   1,   2,   3,   4,   5,   6,   7 >>
mirror(sq) == mirrorTable[sq + 1]

\* C++ integer division truncates toward zero
TruncDiv(a, b) == IF a >= 0 THEN a \div b ELSE -((-a) \div b)

\* the EvalMatrix after EvalMatrix::clear(): no pawn seen on any file, no material
EvalMatrixClear ==
    [pawn_rank |-> [c \in 0..1 |-> [f \in 0..9 |-> IF c = WHITE THEN 0 ELSE 7]],
     piece_mat |-> [c \in 0..1 |-> 0],
     pawn_mat  |-> [c \in 0..1 |-> 0]]

\* mutant of clear: the thread's matrix is left as the previous evaluation left it
clearSkipped(em) == em

\* g_ctx.eval.clear() at the start of evaluate
clear(em) == EvalMatrixClear

\* one iteration of the first loop of evaluate, on square i
EvalScanSquare(state, i, em) ==
    LET color == PieceColor(state, i)
        pt == PieceType(state, i)
        file == COL(i) + 1
    IN  IF color = EMPTY THEN em
        ELSE IF pt = PAWN
        THEN LET em1 == [em EXCEPT !.pawn_mat[color] = @ + piece_value(PAWN)]
             IN  IF color = WHITE
                 THEN IF em1.pawn_rank[WHITE][file] < ROW(i)
                      THEN [em1 EXCEPT !.pawn_rank[BLACK][file] = ROW(i)]
                      ELSE em1
                 ELSE IF em1.pawn_rank[BLACK][file] > ROW(i)
                      THEN [em1 EXCEPT !.pawn_rank[BLACK][file] = ROW(i)]
                      ELSE em1
        ELSE [em EXCEPT !.piece_mat[color] = @ + piece_value(pt)]

\* the first loop of evaluate over the squares lo..hi in ascending order
RECURSIVE EvalScan(_, _, _, _)
EvalScan(state, lo, hi, em) ==
    IF lo = hi THEN EvalScanSquare(state, lo, em)
    ELSE LET mid == (lo + hi) \div 2
             left == EvalScan(state, lo, mid, em)
         IN  \* the test orders the evaluation: the squares lo..mid are scanned first
             IF left.pawn_mat[WHITE] >= 0
             THEN EvalScan(state, mid + 1, hi, left)
             ELSE left

eval_white_pawn(em, sq) ==
    LET f == COL(sq) + 1
        pr == em.pawn_rank
    IN  pawn_pcsq(sq)
        - (IF pr[WHITE][f] > ROW(sq) THEN DOUBLED_PAWN_PENALTY ELSE 0)
        - (IF pr[WHITE][f - 1] = 0 /\ pr[WHITE][f + 1] = 0 THEN ISOLATED_PAWN_PENALTY
           ELSE IF pr[WHITE][f - 1] < ROW(sq) /\ pr[WHITE][f + 1] < ROW(sq)
                THEN BACKWARDS_PAWN_PENALTY ELSE 0)
        + (IF pr[BLACK][f - 1] >= ROW(sq) /\ pr[BLACK][f] >= ROW(sq) /\ pr[BLACK][f + 1] >= ROW(sq)
           THEN (7 - ROW(sq)) * PASSED_PAWN_BONUS ELSE 0)

eval_black_pawn(em, sq) ==
    LET f == COL(sq) + 1
        pr == em.pawn_rank
    IN  pawn_pcsq(mirror(sq))
        - (IF pr[BLACK][f] < ROW(sq) THEN DOUBLED_PAWN_PENALTY ELSE 0)
        - (IF pr[BLACK][f - 1] = 7 /\ pr[BLACK][f + 1] = 7 THEN ISOLATED_PAWN_PENALTY
           ELSE IF pr[BLACK][f - 1] > ROW(sq) /\ pr[BLACK][f + 1] > ROW(sq)
                THEN BACKWARDS_PAWN_PENALTY ELSE 0)
        + (IF pr[WHITE][f - 1] <= ROW(sq) /\ pr[WHITE][f] <= ROW(sq) /\ pr[WHITE][f + 1] <= ROW(sq)
           THEN ROW(sq) * PASSED_PAWN_BONUS ELSE 0)

eval_wkp(em, f) ==
    LET w == em.pawn_rank[WHITE][f]
        b == em.pawn_rank[BLACK][f]
    IN  (IF w = 6 THEN 0 ELSE IF w = 5 THEN -10 ELSE IF w # 0 THEN -20 ELSE -25)
        + (IF b = 7 THEN -15 ELSE IF b = 5 THEN -10 ELSE IF b = 4 THEN -5 ELSE 0)

eval_bkp(em, f) ==
    LET w == em.pawn_rank[WHITE][f]
        b == em.pawn_rank[BLACK][f]
    IN  (IF b = 6 THEN 0 ELSE IF b = 5 THEN -10 ELSE IF b # 0 THEN -20 ELSE -25)
        + (IF w = 7 THEN -15 ELSE IF w = 5 THEN -10 ELSE IF w = 4 THEN -5 ELSE 0)

\* the penalty for open files next to a king standing on the d or e file
OpenFilesNearKing(em, sq) ==
    LET open == {i \in COL(sq)..(COL(sq) + 2) :
                    em.pawn_rank[WHITE][i] = 0 /\ em.pawn_rank[BLACK][i] = 7}
    IN  -10 * Cardinality(open)

eval_white_king(em, sq) ==
    LET r == king_pcsq(sq)
             + (IF COL(sq) < 3
                THEN eval_wkp(em, FILE_A) + eval_wkp(em, FILE_B) + TruncDiv(eval_wkp(em, FILE_C), 2)
                ELSE IF COL(sq) > 4
                THEN eval_wkp(em, FILE_H) + eval_wkp(em, FILE_G) + TruncDiv(eval_wkp(em, FILE_F), 2)
                ELSE OpenFilesNearKing(em, sq))
    IN  TruncDiv(r * em.piece_mat[BLACK], 3100)

eval_black_king(em, sq) ==
    LET r == king_pcsq(mirror(sq))
             + (IF COL(sq) < 3
                THEN eval_bkp(em, FILE_A) + eval_bkp(em, FILE_B) + TruncDiv(eval_bkp(em, FILE_C), 2)
                ELSE IF COL(sq) > 4
                THEN eval_bkp(em, FILE_H) + eval_bkp(em, FILE_G) + TruncDiv(eval_bkp(em, FILE_F), 2)
                ELSE OpenFilesNearKing(em, sq))
    IN  TruncDiv(r * em.piece_mat[WHITE], 3100)

\* one iteration of the second loop of evaluate: what the piece on square i adds
\* to score[WHITE] (.w) and score[BLACK] (.b); color is the value the variable
\* was left with by the first loop
PieceScore(state, em, color, i) ==
    LET pt == PieceType(state, i)
        white == color = WHITE
        v == IF pt = PAWN THEN (IF white THEN eval_white_pawn(em, i) ELSE eval_black_pawn(em, i))
             ELSE IF pt = KNIGHT THEN (IF white THEN knight_pcsq(i) ELSE knight_pcsq(mirror(i)))
             ELSE IF pt = BISHOP THEN (IF white THEN bishop_pcsq(i) ELSE bishop_pcsq(mirror(i)))
             ELSE IF pt = ROOK
             THEN IF white
                  THEN (IF em.pawn_rank[WHITE][COL(i) + 1] = 0
                        THEN (IF em.pawn_rank[BLACK][COL(i) + 1] = 7
                              THEN ROOK_OPEN_FILE_BONUS ELSE ROOK_SEMI_OPEN_FILE_BONUS)
                        ELSE 0)
                       + (IF ROW(i) = 1 THEN ROOK_ON_SEVENTH_BONUS ELSE 0)
                  ELSE (IF em.pawn_rank[BLACK][COL(i) + 1] = 7
                        THEN (IF em.pawn_rank[BLACK][COL(i) + 1] = 0
                              THEN ROOK_OPEN_FILE_BONUS ELSE ROOK_SEMI_OPEN_FILE_BONUS)
                        ELSE 0)
                       + (IF ROW(i) = 6 THEN ROOK_ON_SEVENTH_BONUS ELSE 0)
             ELSE IF pt = KING
             THEN IF white
                  THEN (IF em.piece_mat[BLACK] <= 1200 THEN king_endgame_pcsq(i)
                        ELSE eval_white_king(em, i))
                  ELSE (IF em.piece_mat[WHITE] <= 1200 THEN king_endgame_pcsq(mirror(i))
                        ELSE eval_black_king(em, i))
             ELSE 0
    IN  IF pt = EMPTY THEN [w |-> 0, b |-> 0]
        ELSE IF white THEN [w |-> v, b |-> 0] ELSE [w |-> 0, b |-> v]

\* the second loop of evaluate over the squares lo..hi: score[WHITE] - score[BLACK]
\* of the positional terms
RECURSIVE EvalSum(_, _, _, _, _)
EvalSum(state, em, color, lo, hi) ==
    IF lo = hi
    THEN LET s == PieceScore(state, em, color, lo) IN s.w - s.b
    ELSE LET mid == (lo + hi) \div 2
         IN  EvalSum(state, em, color, lo, mid) + EvalSum(state, em, color, mid + 1, hi)

\* the colour of the last square the first loop looked at: the variable color
\* is not assigned again in the second loop
LastColor(state) == PieceColor(state, 63)

\* evaluate(state) run by a thread whose EvalMatrix is em: the score relative to
\* White and the EvalMatrix it leaves behind
evaluate(em, state) ==
    IF state.halfmoveClock >= 100 THEN [score |-> 0, eval |-> em]
    ELSE LET em1 == EvalScan(state, 0, 63, clear(em))
             material == (em1.piece_mat[WHITE] + em1.pawn_mat[WHITE])
                         - (em1.piece_mat[BLACK] + em1.pawn_mat[BLACK])
         IN  [score |-> material + EvalSum(state, em1, LastColor(state), 0, 63), eval |-> em1]


(***************************************************************************)
(* Search (search-mt-copy.cpp): sortMoves, quiescence, alphabetaTimed.     *)
(* A call runs on one thread: em is that thread's g_ctx.eval, n the number *)
(* of nodes counted so far.  Time is measured in nodes: the deadline has   *)
(* passed at the entry check of every node counted after the first         *)
(* `deadline` ones.  The boards searched descend from positions whose      *)
(* en-passant target is absent or an empty square, on which applyMove does *)
(* not throw for a generated move.                                         *)
(***************************************************************************)
Max(a, b) == IF a >= b THEN a ELSE b
Least(a, b) == IF a <= b THEN a ELSE b

\* the index sortMoves' scan ends with: the first move with the highest score
\* (a later move replaces the best only if its score is strictly higher)
BestIndex(moves) ==
    CHOOSE i \in 1..Len(moves) :
        /\ \A j \in 1..Len(moves) : moves[j].score <= moves[i].score
        /\ \A j \in 1..(i - 1) : moves[j].score < moves[i].score

\* sortMoves: the best-scored move is swapped to the front
sortMoves(moves) ==
    IF Len(moves) <= 1 THEN moves
    ELSE LET bi == BestIndex(moves)
         IN  [i \in 1..Len(moves) |->
                 IF i = 1 THEN moves[bi] ELSE IF i = bi THEN moves[1] ELSE moves[i]]

\* the entry check of a node: stop.load() || now() > deadline, at node number n
Aborted(n, deadline, stop) == stop \/ n > deadline

\* mutant of Cutoff: the loop is left as soon as the window is narrower than a margin
CutoffWithMargin(alpha, beta) == beta <= alpha + 30

\* if (beta <= alpha) break;
Cutoff(alpha, beta) == beta <= alpha

\* the value quiescence returns once its loop has ended in state st: alpha or
\* beta as narrowed by the loop, or the bound returned from inside the loop
QReturn(maximizing, st) ==
    [score |-> IF maximizing THEN (IF st.cut THEN st.beta ELSE st.alpha)
                             ELSE (IF st.cut THEN st.alpha ELSE st.beta),
     eval |-> st.eval, nodes |-> st.nodes]

\* the body of the loop of quiescence after the recursive call returned r; st
\* holds alpha, beta and the thread's state, st.cut says that the loop returned
\* from inside
QUpdate(maximizing, st, r) ==
    IF maximizing
    THEN [alpha |-> IF r.score < st.beta THEN Max(st.alpha, r.score) ELSE st.alpha,
          beta |-> st.beta, eval |-> r.eval, nodes |-> r.nodes,
          cut |-> r.score >= st.beta]
    ELSE [alpha |-> st.alpha,
          beta |-> IF r.score > st.alpha THEN Least(st.beta, r.score) ELSE st.beta,
          eval |-> r.eval, nodes |-> r.nodes,
          cut |-> r.score <= st.alpha]

RECURSIVE quiescence(_, _, _, _, _, _, _, _)
RECURSIVE QStandPat(_, _, _, _, _, _, _, _)
RECURSIVE QMoves(_, _, _, _, _, _, _)
RECURSIVE QLoop(_, _, _, _, _, _, _, _)
RECURSIVE QRest(_, _, _, _, _, _, _, _)
\* quiescence: the entry check, then the stand-pat evaluation
quiescence(b, alpha, beta, maximizing, em, n, deadline, stop) ==
    IF Aborted(n + 1, deadline, stop) THEN [score |-> 0, eval |-> em, nodes |-> n + 1]
    ELSE QStandPat(b, alpha, beta, maximizing, evaluate(em, b), n + 1, deadline, stop)

\* quiescence from the stand-pat test on; ev is what evaluate returned and left
QStandPat(b, alpha, beta, maximizing, ev, n1, deadline, stop) ==
    IF maximizing /\ ev.score >= beta
    THEN [score |-> beta, eval |-> ev.eval, nodes |-> n1]
    ELSE IF ~maximizing /\ ev.score <= alpha
    THEN [score |-> alpha, eval |-> ev.eval, nodes |-> n1]
    ELSE QMoves(b, maximizing, ev.score, generateCaptures(b),
                [alpha |-> IF maximizing /\ ev.score > alpha THEN ev.score ELSE alpha,
                 beta |-> IF ~maximizing /\ ev.score < beta THEN ev.score ELSE beta,
                 eval |-> ev.eval, nodes |-> n1, cut |-> FALSE],
                deadline, stop)

\* quiescence from the generation of the captures on
QMoves(b, maximizing, stand_pat, moves, st, deadline, stop) ==
    IF moves = <<>>
    THEN [score |-> stand_pat, eval |-> st.eval, nodes |-> st.nodes]
    ELSE QReturn(maximizing, QLoop(b, moves, 1, Len(moves), maximizing, st, deadline, stop))

\* the loop of quiescence over moves[lo..hi], in order, until it is cut
QLoop(b, moves, lo, hi, maximizing, st, deadline, stop) ==
    IF lo = hi
    THEN QUpdate(maximizing, st,
                 quiescence(applyMove(b, moves[lo]).board, st.alpha, st.beta, ~maximizing,
                            st.eval, st.nodes, deadline, stop))
    ELSE QRest(b, moves, (lo + hi) \div 2, hi, maximizing,
               QLoop(b, moves, lo, (lo + hi) \div 2, maximizing, st, deadline, stop),
               deadline, stop)

\* the loop over moves[mid+1..hi] after moves[..mid] left it in state left
QRest(b, moves, mid, hi, maximizing, left, deadline, stop) ==
    IF left.cut THEN left
    ELSE QLoop(b, moves, mid + 1, hi, maximizing, left, deadline, stop)

\* what alphabetaTimed returns at depth 0: the value of quiescence, pv untouched
HorizonValue(q) == [score |-> q.score, pv |-> <<>>, eval |-> q.eval, nodes |-> q.nodes]

\* if (moves.empty()) return evaluate(board); ev is what evaluate returned and left
NoMoveValue(ev, n1) == [score |-> ev.score, pv |-> <<>>, eval |-> ev.eval, nodes |-> n1]

\* what alphabetaTimed returns once its loop has ended in state st: maxEval or
\* minEval, and pv = bestMove followed by bestLine
ABReturn(st) ==
    [score |-> st.best, pv |-> <<st.move>> \o st.line, eval |-> st.eval, nodes |-> st.nodes]

\* the body of the loop of alphabetaTimed on move m after the recursive call
\* returned r; st.best is maxEval or minEval, st.move and st.line are bestMove
\* and bestLine, st.cut says that the loop was left by break
ABUpdate(m, maximizing, st, r) ==
    LET better == IF maximizing THEN r.score > st.best ELSE r.score < st.best
        best1 == IF better THEN r.score ELSE st.best
        alpha1 == IF maximizing THEN Max(st.alpha, best1) ELSE st.alpha
        beta1 == IF maximizing THEN st.beta ELSE Least(st.beta, best1)
    IN  [alpha |-> alpha1, beta |-> beta1, best |-> best1,
         move |-> IF better THEN m ELSE st.move,
         line |-> IF better THEN r.pv ELSE st.line,
         eval |-> r.eval, nodes |-> r.nodes,
         cut |-> Cutoff(alpha1, beta1)]

\* alphabetaTimed: .score is the value returned, .pv the line written to pv
\* (<<>> when pv is left untouched), .eval and .nodes the thread's state after
RECURSIVE alphabetaTimed(_, _, _, _, _, _, _, _, _)
RECURSIVE ABMoves(_, _, _, _, _, _, _, _, _, _)
RECURSIVE ABSorted(_, _, _, _, _, _, _, _, _, _)
RECURSIVE ABLoop(_, _, _, _, _, _, _, _, _)
RECURSIVE ABRest(_, _, _, _, _, _, _, _, _)
alphabetaTimed(b, depth, alpha, beta, maximizing, em, n, deadline, stop) ==
    IF Aborted(n + 1, deadline, stop)
    THEN [score |-> 0, pv |-> <<>>, eval |-> em, nodes |-> n + 1]
    ELSE IF b.halfmoveClock >= 100
    THEN [score |-> 0, pv |-> <<>>, eval |-> em, nodes |-> n + 1]
    ELSE IF depth = 0
    THEN HorizonValue(quiescence(b, alpha, beta, maximizing, em, n + 1, deadline, stop))
    ELSE ABMoves(b, depth, alpha, beta, maximizing, em, n + 1, generateMoves(b),
                 deadline, stop)

\* alphabetaTimed from the test of the generated moves on
ABMoves(b, depth, alpha, beta, maximizing, em, n1, generated, deadline, stop) ==
    IF generated = <<>> THEN NoMoveValue(evaluate(em, b), n1)
    ELSE ABSorted(b, depth, alpha, beta, maximizing, em, n1, sortMoves(generated),
                  deadline, stop)

\* alphabetaTimed from the loop over the sorted moves on
ABSorted(b, depth, alpha, beta, maximizing, em, n1, moves, deadline, stop) ==
    ABReturn(ABLoop(b, depth, moves, 1, Len(moves), maximizing,
                    [alpha |-> alpha, beta |-> beta,
                     best |-> IF maximizing THEN -INF ELSE INF,
                     move |-> moves[1], line |-> <<>>,
                     eval |-> em, nodes |-> n1, cut |-> FALSE],
                    deadline, stop))

\* the loop of alphabetaTimed over moves[lo..hi], in order, until the break
ABLoop(b, depth, moves, lo, hi, maximizing, st, deadline, stop) ==
    IF lo = hi
    THEN ABUpdate(moves[lo], maximizing, st,
                  alphabetaTimed(applyMove(b, moves[lo]).board, depth - 1, st.alpha, st.beta,
                                 ~maximizing, st.eval, st.nodes, deadline, stop))
    ELSE ABRest(b, depth, moves, (lo + hi) \div 2, hi, maximizing,
                ABLoop(b, depth, moves, lo, (lo + hi) \div 2, maximizing, st, deadline, stop),
                deadline, stop)

\* the loop over moves[mid+1..hi] after moves[..mid] left it in state left
ABRest(b, depth, moves, mid, hi, maximizing, left, deadline, stop) ==
    IF left.cut THEN left
    ELSE ABLoop(b, depth, moves, mid + 1, hi, maximizing, left, deadline, stop)

(***************************************************************************)
(* Searching a position: alphabetaTimed called on boards of short games    *)
(***************************************************************************)
MaxDepth == 2
MaxSearchPly == 1

\* "no deadline": more nodes than any search of the model visits
NoDeadline == INF

\* k7/8/1K6/8/8/8/8/7R w - - 0 1 (h1h8 mates)
FenMateInOne ==
    MkBoard(<< <<"k", ".", ".", ".", ".", ".", ".", ".">>,
               EmptyRow,
               <<".", "K", ".", ".", ".", ".", ".", ".">>,
               EmptyRow, EmptyRow, EmptyRow, EmptyRow,
               <<".", ".", ".", ".", ".", ".", ".", "R">> >>,
            TRUE, FALSE, FALSE, FALSE, FALSE, -1, 0, 1)

\* k7/2Q5/1K6/8/8/8/8/8 b - - 0 1 (Black is stalemated)
FenStalemate ==
    MkBoard(<< <<"k", ".", ".", ".", ".", ".", ".", ".">>,
               <<".", ".", "Q", ".", ".", ".", ".", ".">>,
               <<".", "K", ".", ".", ".", ".", ".", ".">>,
               EmptyRow, EmptyRow, EmptyRow, EmptyRow, EmptyRow >>,
            FALSE, FALSE, FALSE, FALSE, FALSE, -1, 0, 1)

\* 4k3/8/8/3p4/4P3/8/8/4K3 w - - 0 1 (the pawns can capture each other)
FenPawnTension ==
    MkBoard(<< <<".", ".", ".", ".", "k", ".", ".", ".">>,
               EmptyRow, EmptyRow,
               <<".", ".", ".", "p", ".", ".", ".", ".">>,
               <<".", ".", ".", ".", "P", ".", ".", ".">>,
               EmptyRow, EmptyRow,
               <<".", ".", ".", ".", "K", ".", ".", ".">> >>,
            TRUE, FALSE, FALSE, FALSE, FALSE, -1, 0, 1)

\* 4k3/8/8/8/8/8/8/4K2N w - - 99 60 (one move from the 50-move rule)
FenFiftyMoves ==
    MkBoard(<< <<".", ".", ".", ".", "k", ".", ".", ".">>,
               EmptyRow, EmptyRow, EmptyRow, EmptyRow, EmptyRow, EmptyRow,
               <<".", ".", ".", ".", "K", ".", ".", "N">> >>,
            TRUE, FALSE, FALSE, FALSE, FALSE, -1, 99, 60)

\* 4k3/8/4p3/3p4/4P3/3P4/8/4K3 b - - 0 1 (a capture can be answered by a recapture)
FenExchange ==
    MkBoard(<< <<".", ".", ".", ".", "k", ".", ".", ".">>,
               EmptyRow,
               <<".", ".", ".", ".", "p", ".", ".", ".">>,
               <<".", ".", ".", "p", ".", ".", ".", ".">>,
               <<".", ".", ".", ".", "P", ".", ".", ".">>,
               <<".", ".", ".", "P", ".", ".", ".", ".">>,
               EmptyRow,
               <<".", ".", ".", ".", "K", ".", ".", ".">> >>,
            FALSE, FALSE, FALSE, FALSE, FALSE, -1, 0, 1)

\* 7k/8/8/3pP3/8/8/8/7K w - d6 0 1 (the only capture is en passant, e5d6)
FenEnPassantCapture ==
    MkBoard(<< <<".", ".", ".", ".", ".", ".", ".", "k">>,
               EmptyRow,
               EmptyRow,
               <<".", ".", ".", "p", "P", ".", ".", ".">>,
               EmptyRow,
               EmptyRow,
               EmptyRow,
               <<".", ".", ".", ".", ".", ".", ".", "K">> >>,
            TRUE, FALSE, FALSE, FALSE, FALSE, 19, 0, 1)

SearchBoards == {FenMateInOne, FenStalemate, FenPawnTension, FenFiftyMoves, FenExchange,
                 FenEnPassantCapture, FenPromotions}

SearchInit ==
    /\ board \in SearchBoards
    /\ ply = 0
    /\ lastMove = Idle
    /\ outcome = "loaded"
    /\ prev = board
    /\ probe = NoProbe
    /\ pf = NoPerft
    /\ sr = NoSearch /\ pool = NoPool /\ co = NoCoordinator /\ wk = NoWorkers /\ env = NoEnv

\* what the caller holds after alphabetaTimed returned r for board b and depth d
Searched(b, d, r) ==
    [called |-> TRUE, on |-> b, depth |-> d, score |-> r.score, nodes |-> r.nodes, pv |-> r.pv]

\* alphabetaTimed(board, d, -INF, INF, board.whiteToMove, deadline, stop, pv) on a
\* fresh thread, the deadline far away and stop never set
Search ==
    /\ \E d \in 0..MaxDepth :
           sr' = Searched(board, d, alphabetaTimed(board, d, -INF, INF, board.whiteToMove,
                                                   EvalMatrixClear, 0, NoDeadline, FALSE))
    /\ UNCHANGED <<board, ply, lastMove, outcome, prev, probe, pf, pool, co, wk, env>>

\* the game searched goes on by one move
SearchPlay == ply < MaxSearchPly /\ MovePlayed

SearchNext == SearchPlay \/ Search

SpecSearch == SearchInit /\ [][SearchNext]_vars

\* the reference: minimax without a window, with the terminal rules, the
\* quiescence and the evaluator of alphabetaTimed; .nodes counts the nodes visited
RECURSIVE qminimax(_, _)
RECURSIVE QChildren(_, _, _, _, _)
qminimax(b, maximizing) ==
    LET stand_pat == evaluate(EvalMatrixClear, b).score
        moves == generateCaptures(b)
    IN  IF moves = <<>> THEN [score |-> stand_pat, nodes |-> 1]
        ELSE LET c == QChildren(b, moves, 1, Len(moves), maximizing)
             IN  [score |-> IF maximizing THEN Max(stand_pat, c.score)
                                          ELSE Least(stand_pat, c.score),
                  nodes |-> 1 + c.nodes]

\* the best quiescence value among the children by moves[lo..hi]
QChildren(b, moves, lo, hi, maximizing) ==
    IF lo = hi THEN qminimax(applyMove(b, moves[lo]).board, ~maximizing)
    ELSE LET mid == (lo + hi) \div 2
             l == QChildren(b, moves, lo, mid, maximizing)
             r == QChildren(b, moves, mid + 1, hi, maximizing)
         IN  [score |-> IF maximizing THEN Max(l.score, r.score) ELSE Least(l.score, r.score),
              nodes |-> l.nodes + r.nodes]

RECURSIVE minimax(_, _, _)
RECURSIVE MinimaxChildren(_, _, _, _, _, _)
minimax(b, depth, maximizing) ==
    IF b.halfmoveClock >= 100 THEN [score |-> 0, nodes |-> 1]
    ELSE IF depth = 0
    THEN LET q == qminimax(b, maximizing) IN [score |-> q.score, nodes |-> 1 + q.nodes]
    ELSE LET moves == generateMoves(b)
         IN  IF moves = <<>>
             THEN [score |-> evaluate(EvalMatrixClear, b).score, nodes |-> 1]
             ELSE LET c == MinimaxChildren(b, depth, moves, 1, Len(moves), maximizing)
                  IN  [score |-> c.score, nodes |-> 1 + c.nodes]

\* the best minimax value among the children by moves[lo..hi]
MinimaxChildren(b, depth, moves, lo, hi, maximizing) ==
    IF lo = hi THEN minimax(applyMove(b, moves[lo]).board, depth - 1, ~maximizing)
    ELSE LET mid == (lo + hi) \div 2
             l == MinimaxChildren(b, depth, moves, lo, mid, maximizing)
             r == MinimaxChildren(b, depth, moves, mid + 1, hi, maximizing)
         IN  [score |-> IF maximizing THEN Max(l.score, r.score) ELSE Least(l.score, r.score),
              nodes |-> l.nodes + r.nodes]

\* C5: with no deadline and no stop, alphabetaTimed with the window (-INF, INF)
\* returns exactly the value of un-pruned minimax to the same depth
AlphaBetaEqualsMinimax ==
    sr.called => sr.score = minimax(sr.on, sr.depth, sr.on.whiteToMove).score

\* a search to depth 2 that cut branches off: it visited fewer nodes than minimax
\* and returned the minimax value
SearchPruned ==
    /\ sr.called
    /\ sr.depth = 2
    /\ LET m == minimax(sr.on, sr.depth, sr.on.whiteToMove)
       IN  sr.nodes < m.nodes /\ sr.score = m.score

\* C6 as claimed: called with depth >= 1 on a board (not drawn by the 50-move
\* rule) whose side to move has no legal move, alphabetaTimed returns 0 when that
\* side is not in check, and a mate score against it when it is in check; a mate
\* score is worse for the mated side than the static evaluation of the board
NoMoveNodeScoresMateOrStalemate ==
    (sr.called /\ sr.depth >= 1 /\ sr.on.halfmoveClock < 100 /\ generateMoves(sr.on) = <<>>) =>
        IF inCheck(sr.on, SideToMove(sr.on))
        THEN IF sr.on.whiteToMove
             THEN sr.score < evaluate(EvalMatrixClear, sr.on).score
             ELSE sr.score > evaluate(EvalMatrixClear, sr.on).score
        ELSE sr.score = 0

(***************************************************************************)
(* The multi-thread diagnostic (test_mt_diagnostics.cpp): a single-thread  *)
(* baseline over the root moves, then a pool of workers that draw work     *)
(* items from an atomic counter and search them with evalMoveWithPV, each  *)
(* on its own thread-local context.  The statistics the test prints are    *)
(* not part of the model.                                                  *)
(***************************************************************************)
NumThreads == 2
Repeats == 2
MaxDiagDepth == 2

\* 7k/7p/7K/8/8/8/8/8 w - - 0 1 (two root moves)
FenTwoMoves ==
    MkBoard(<< <<".", ".", ".", ".", ".", ".", ".", "k">>,
               <<".", ".", ".", ".", ".", ".", ".", "p">>,
               <<".", ".", ".", ".", ".", ".", ".", "K">>,
               EmptyRow,
               EmptyRow,
               EmptyRow,
               EmptyRow,
               EmptyRow >>,
            TRUE, FALSE, FALSE, FALSE, FALSE, -1, 0, 1)

\* 7k/P7/8/8/8/8/6K1/8 b - - 0 1 (three root moves, Black to move)
FenBlackToMove ==
    MkBoard(<< <<".", ".", ".", ".", ".", ".", ".", "k">>,
               <<"P", ".", ".", ".", ".", ".", ".", ".">>,
               EmptyRow,
               EmptyRow,
               EmptyRow,
               EmptyRow,
               <<".", ".", ".", ".", ".", ".", "K", ".">>,
               EmptyRow >>,
            FALSE, FALSE, FALSE, FALSE, FALSE, -1, 0, 1)

DiagBoards == {FenTwoMoves, FenBlackToMove}

\* a thread_local EvalMatrix nothing has written yet: every field is zero
EvalMatrixZero ==
    [pawn_rank |-> [c \in 0..1 |-> [f \in 0..9 |-> 0]],
     piece_mat |-> [c \in 0..1 |-> 0],
     pawn_mat  |-> [c \in 0..1 |-> 0]]

\* evalMoveWithPV with timeMs = 0 on a thread whose EvalMatrix is em: .score is
\* the eval returned, .eval the thread's EvalMatrix afterwards
evalMoveWithPV(root, rootMove, remainingDepth, em) ==
    alphabetaTimed(applyMove(root, rootMove).board, Max(0, remainingDepth),
                   -100000, 100000, ~root.whiteToMove, em, 0, NoDeadline, FALSE)

\* the baseline loop from entry i on, run by the main thread whose EvalMatrix is
\* em: the baselineEval of the entries i..Len(rootMoves)
RECURSIVE Baseline(_, _, _, _, _)
RECURSIVE BaselineRest(_, _, _, _, _)
Baseline(root, rootMoves, i, depth, em) ==
    IF i > Len(rootMoves) THEN <<>>
    ELSE BaselineRest(root, rootMoves, i, depth,
                      evalMoveWithPV(root, rootMoves[i], depth - 1, em))

\* entries[i].baselineEval = r.score, then the entries after i
BaselineRest(root, rootMoves, i, depth, r) ==
    <<r.score>> \o Baseline(root, rootMoves, i + 1, depth, r.eval)

\* work[k].moveIndex for k = 0 .. N * repeats - 1, as an index from 1
WorkMove(k) == (k \div Repeats) + 1

DiagInit ==
    /\ board \in DiagBoards
    /\ ply = 0
    /\ lastMove = Idle
    /\ outcome = "loaded"
    /\ prev = board
    /\ probe = NoProbe
    /\ pf = NoPerft
    /\ sr = NoSearch /\ pool = NoPool /\ co = NoCoordinator /\ wk = NoWorkers /\ env = NoEnv

\* main up to the start of the pool: root moves, baseline, work list, threads;
\* depth and resetThreadLocalEachRep come from the command line
DiagStart ==
    /\ pool.pc = "off"
    /\ \E depth \in 1..MaxDiagDepth, resetCtxEachRep \in BOOLEAN :
           LET rootMoves == generateMoves(board)
           IN  /\ pool' = [pc |-> IF rootMoves = <<>> THEN "done" ELSE "run",
                           depth |-> depth,
                           resetCtxEachRep |-> resetCtxEachRep,
                           rootMoves |-> rootMoves,
                           baselineEval |-> Baseline(board, rootMoves, 1, depth, EvalMatrixZero),
                           next |-> 0]
               /\ wk' = IF rootMoves = <<>> THEN NoWorkers
                        ELSE [t \in 1..NumThreads |->
                                 [pc |-> "start", k |-> 0, eval |-> EvalMatrixZero,
                                  ran |-> <<>>]]
    /\ UNCHANGED <<board, ply, lastMove, outcome, prev, probe, pf, sr, co, env>>

\* the worker's first statement: g_ctx.resetAll()
WorkerStart(t) ==
    /\ pool.pc = "run"
    /\ wk[t].pc = "start"
    /\ wk' = [wk EXCEPT ![t].pc = "fetch", ![t].eval = EvalMatrixClear]
    /\ UNCHANGED <<board, ply, lastMove, outcome, prev, probe, pf, sr, pool, co, env>>

\* k = next.fetch_add(1); the worker ends when the work list is used up
WorkerFetch(t) ==
    /\ pool.pc = "run"
    /\ wk[t].pc = "fetch"
    /\ pool' = [pool EXCEPT !.next = @ + 1]
    /\ wk' = [wk EXCEPT ![t].k = pool.next,
                        ![t].pc = IF pool.next >= Len(pool.rootMoves) * Repeats
                                  THEN "done" ELSE "search"]
    /\ UNCHANGED <<board, ply, lastMove, outcome, prev, probe, pf, sr, co, env>>

\* the worker w after evalMoveWithPV returned r for the root move of index i
Recorded(w, i, r) ==
    [w EXCEPT !.pc = "fetch", !.eval = r.eval, !.ran = Append(@, [i |-> i, eval |-> r.score])]

\* the body of the worker's loop for work item k: the optional reset, the search
\* of the root move, the result kept with the entry it belongs to
WorkerSearch(t) ==
    /\ pool.pc = "run"
    /\ wk[t].pc = "search"
    /\ wk' = [wk EXCEPT ![t] =
                 Recorded(wk[t], WorkMove(wk[t].k),
                          evalMoveWithPV(board, pool.rootMoves[WorkMove(wk[t].k)], pool.depth - 1,
                                         IF pool.resetCtxEachRep THEN EvalMatrixClear
                                                                 ELSE wk[t].eval))]
    /\ UNCHANGED <<board, ply, lastMove, outcome, prev, probe, pf, sr, pool, co, env>>

\* for (auto& th : pool) th.join()
DiagJoin ==
    /\ pool.pc = "run"
    /\ \A t \in 1..NumThreads : wk[t].pc = "done"
    /\ pool' = [pool EXCEPT !.pc = "done"]
    /\ UNCHANGED <<board, ply, lastMove, outcome, prev, probe, pf, sr, co, wk, env>>

DiagNext ==
    \/ DiagStart
    \/ \E t \in 1..NumThreads : WorkerStart(t) \/ WorkerFetch(t) \/ WorkerSearch(t)
    \/ DiagJoin

SpecDiag == DiagInit /\ [][DiagNext]_vars

\* C4: every score a worker of the pool obtains for a root move equals the score
\* the single-thread baseline obtained for that root move at the same depth,
\* whatever the worker searched before and however the workers interleave
WorkerScoresEqualBaseline ==
    pool.pc \in {"run", "done"} =>
        \A t \in 1..Len(wk) : \A j \in 1..Len(wk[t].ran) :
            wk[t].ran[j].eval = pool.baselineEval[wk[t].ran[j].i]

\* both workers searched, and one of them searched a root move after it had
\* searched a different one on the same thread-local context, with the
\* baseline's score
WorkerReusedContext ==
    /\ pool.pc = "run"
    /\ ~pool.resetCtxEachRep
    /\ \A t \in 1..NumThreads : wk[t].ran # <<>>
    /\ \E t \in 1..NumThreads : \E j \in 2..Len(wk[t].ran) :
           /\ wk[t].ran[j].i # wk[t].ran[j - 1].i
           /\ wk[t].ran[j].eval = pool.baselineEval[wk[t].ran[j].i]

(***************************************************************************)
(* The search thread of the UCI loop (uci.cpp, command go): iterative      *)
(* deepening over the root moves, each depth searched by a pool of workers *)
(* that draw root moves from an atomic counter.  A worker's call of        *)
(* alphabetaTimed advances node by node, so that the deadline can pass and *)
(* the command stop can arrive between two nodes.  The counter g_nodes and *)
(* the info lines, which the search never reads, are not part of the       *)
(* model; the tables merged into the root aggregate are never written by   *)
(* the search and stay empty.                                              *)
(***************************************************************************)
MaxDepthLimit == 2

\* k7/8/8/8/8/8/8/7K b - - 0 1 (bare kings, Black to move, three root moves)
FenBareKings ==
    MkBoard(<< <<"k", ".", ".", ".", ".", ".", ".", ".">>,
               EmptyRow,
               EmptyRow,
               EmptyRow,
               EmptyRow,
               EmptyRow,
               EmptyRow,
               <<".", ".", ".", ".", ".", ".", ".", "K">> >>,
            FALSE, FALSE, FALSE, FALSE, FALSE, -1, 0, 1)

UciBoards == {FenTwoMoves, FenBareKings, FenStalemate}

UciInit ==
    /\ board \in UciBoards
    /\ ply = 0
    /\ lastMove = Idle
    /\ outcome = "loaded"
    /\ prev = board
    /\ probe = NoProbe
    /\ pf = NoPerft
    /\ sr = NoSearch /\ pool = NoPool /\ co = NoCoordinator /\ wk = NoWorkers /\ env = NoEnv

\* the worker's call alphabetaTimed(next, d - 1, -INF, INF, !board.whiteToMove,
\* deadline, stop, childPV) for rootMove, the deadline passing after limit nodes
SearchCall(root, rootMove, d, limit, stop) ==
    alphabetaTimed(applyMove(root, rootMove).board, d - 1, -INF, INF, ~root.whiteToMove,
                   EvalMatrixClear, 0, limit, stop)

\* the search thread up to the depth loop: stopSearch = false, the locals, the
\* root moves; without a root move it prints bestmove 0000 and ends.  reported
\* tells what was printed after bestmove: nothing yet, 0000, or bestMove
UciGo ==
    /\ co.pc = "off"
    /\ \E depthLimit \in 1..MaxDepthLimit :
           co' = [pc |-> IF generateMoves(board) = <<>> THEN "done" ELSE "depth",
                  depthLimit |-> depthLimit,
                  rootMoves |-> generateMoves(board),
                  stop |-> FALSE,
                  bestMove |-> Idle, bestEval |-> 0,
                  d |-> 1,
                  depthBest |-> Idle, depthBestEval |-> -INF, depthBestPV |-> <<>>,
                  next |-> 0,
                  clean |-> {},
                  lastComplete |-> [d |-> 0, move |-> Idle, eval |-> 0],
                  reported |-> IF generateMoves(board) = <<>> THEN "0000" ELSE "none"]
    /\ env' = [expired |-> FALSE, stopSearch |-> FALSE]
    /\ UNCHANGED <<board, ply, lastMove, outcome, prev, probe, pf, sr, pool, wk>>

\* the head of the depth loop: leave it when the deadline has passed or
\* stopSearch is set, else reset the depth's best and start the workers (whose
\* first statements reset their thread-local context)
StartDepth ==
    /\ co.pc = "depth"
    /\ IF env.expired \/ env.stopSearch
       THEN /\ co' = [co EXCEPT !.pc = "report"]
            /\ UNCHANGED wk
       ELSE /\ co' = [co EXCEPT !.pc = "run",
                                !.depthBest = Idle, !.depthBestEval = -INF,
                                !.depthBestPV = <<>>, !.next = 0, !.clean = {}]
            /\ wk' = [t \in 1..NumThreads |->
                         [pc |-> "fetch", i |-> 0, n |-> 0, limit |-> NoDeadline,
                          total |-> 0, late |-> FALSE]]
    /\ UNCHANGED <<board, ply, lastMove, outcome, prev, probe, pf, sr, pool, env>>

\* i = next.fetch_add(1); the worker ends when the root moves are used up
Fetch(t) ==
    /\ co.pc = "run"
    /\ wk[t].pc = "fetch"
    /\ co' = [co EXCEPT !.next = @ + 1]
    /\ wk' = [wk EXCEPT ![t].i = co.next + 1,
                        ![t].pc = IF co.next >= Len(co.rootMoves) THEN "done" ELSE "check"]
    /\ UNCHANGED <<board, ply, lastMove, outcome, prev, probe, pf, sr, pool, env>>

\* the worker's test before the search of its root move; when it passes, the
\* call is made: total is the number of nodes the call enters if nothing stops it
Check(t) ==
    /\ co.pc = "run"
    /\ wk[t].pc = "check"
    /\ wk' = [wk EXCEPT ![t] =
                 IF env.expired \/ env.stopSearch
                 THEN [wk[t] EXCEPT !.pc = "done"]
                 ELSE [wk[t] EXCEPT !.pc = "search", !.n = 0, !.limit = NoDeadline,
                                    !.total = SearchCall(board, co.rootMoves[wk[t].i], co.d,
                                                         NoDeadline, co.stop).nodes]]
    /\ UNCHANGED <<board, ply, lastMove, outcome, prev, probe, pf, sr, pool, co, env>>

\* the worker enters the next node of its search; the entry check reads the
\* flag handed to alphabetaTimed and the clock.  late records that the node was
\* expanded although stopSearch had been set
EnterNode(t) ==
    /\ co.pc = "run"
    /\ wk[t].pc = "search"
    /\ wk[t].n < wk[t].total
    /\ wk' = [wk EXCEPT ![t].n = @ + 1,
                        ![t].late = @ \/ (env.stopSearch
                                          /\ ~Aborted(wk[t].n + 1, wk[t].limit, co.stop))]
    /\ UNCHANGED <<board, ply, lastMove, outcome, prev, probe, pf, sr, pool, co, env>>

\* the depth's best after a worker's call for the root move of index i returned
\* r: if (eval > depthBestEval) under bestMu; clean collects the root moves
\* whose search no node of which was cut short
BestUpdated(c, i, r, cutShort) ==
    [c EXCEPT !.depthBestEval = IF r.score > c.depthBestEval THEN r.score ELSE @,
              !.depthBest = IF r.score > c.depthBestEval THEN c.rootMoves[i] ELSE @,
              !.depthBestPV = IF r.score > c.depthBestEval
                              THEN <<c.rootMoves[i]>> \o r.pv ELSE @,
              !.clean = IF cutShort THEN @ ELSE @ \cup {i}]

\* the worker's call returns: the depth's best is updated, the (empty) tables
\* are merged
Finish(t) ==
    /\ co.pc = "run"
    /\ wk[t].pc = "search"
    /\ wk[t].n = wk[t].total
    /\ co' = BestUpdated(co, wk[t].i,
                         SearchCall(board, co.rootMoves[wk[t].i], co.d, wk[t].limit, co.stop),
                         wk[t].total > wk[t].limit)
    /\ wk' = [wk EXCEPT ![t].pc = "after"]
    /\ UNCHANGED <<board, ply, lastMove, outcome, prev, probe, pf, sr, pool, env>>

\* the worker's test after a root move: if (now() >= deadline) break
AfterMove(t) ==
    /\ co.pc = "run"
    /\ wk[t].pc = "after"
    /\ wk' = [wk EXCEPT ![t].pc = IF env.expired THEN "done" ELSE "fetch"]
    /\ UNCHANGED <<board, ply, lastMove, outcome, prev, probe, pf, sr, pool, co, env>>

\* the workers are joined: the global best is replaced whenever the depth has a
\* line, then the loop ends on the deadline or the depth limit.  lastComplete
\* keeps the best of the last depth of which every root move was searched to
\* the end
Join ==
    /\ co.pc = "run"
    /\ \A t \in 1..NumThreads : wk[t].pc = "done"
    /\ co' = [co EXCEPT
                !.bestMove = IF co.depthBestPV # <<>> THEN co.depthBest ELSE @,
                !.bestEval = IF co.depthBestPV # <<>> THEN co.depthBestEval ELSE @,
                !.lastComplete = IF co.clean = 1..Len(co.rootMoves)
                                 THEN [d |-> co.d, move |-> co.depthBest,
                                       eval |-> co.depthBestEval]
                                 ELSE @,
                !.d = IF env.expired THEN @ ELSE @ + 1,
                !.pc = IF env.expired \/ co.d + 1 > co.depthLimit THEN "report" ELSE "depth"]
    /\ UNCHANGED <<board, ply, lastMove, outcome, prev, probe, pf, sr, pool, wk, env>>

\* std::cout << "bestmove " << moveToUci(bestMove)
Report ==
    /\ co.pc = "report"
    /\ co' = [co EXCEPT !.pc = "done", !.reported = "bestMove"]
    /\ UNCHANGED <<board, ply, lastMove, outcome, prev, probe, pf, sr, pool, wk, env>>

\* the worker w once the deadline has passed: the nodes it enters from now on
\* find the deadline passed
CutShort(w, root, c) ==
    IF w.pc = "search" /\ w.limit = NoDeadline
    THEN [w EXCEPT !.limit = w.n,
                   !.total = SearchCall(root, c.rootMoves[w.i], c.d, w.n, c.stop).nodes]
    ELSE w

\* the clock reaches the deadline
DeadlinePasses ==
    /\ co.pc \in {"depth", "run", "report"}
    /\ ~env.expired
    /\ env' = [env EXCEPT !.expired = TRUE]
    /\ wk' = [t \in 1..Len(wk) |-> CutShort(wk[t], board, co)]
    /\ UNCHANGED <<board, ply, lastMove, outcome, prev, probe, pf, sr, pool, co>>

\* the command stop: stopSearch = true
StopCommand ==
    /\ co.pc \in {"depth", "run", "report"}
    /\ ~env.stopSearch
    /\ env' = [env EXCEPT !.stopSearch = TRUE]
    /\ UNCHANGED <<board, ply, lastMove, outcome, prev, probe, pf, sr, pool, co, wk>>

UciNext ==
    \/ UciGo
    \/ StartDepth
    \/ \E t \in 1..NumThreads : Fetch(t) \/ Check(t) \/ EnterNode(t) \/ Finish(t) \/ AfterMove(t)
    \/ Join
    \/ Report
    \/ DeadlinePasses
    \/ StopCommand

SpecUci == UciInit /\ [][UciNext]_vars

\* C2 as claimed: the move reported as bestmove is the best root move of the
\* last depth of which every root move was searched to the end; what an
\* interrupted depth gathered never replaces it
ReportsLastCompleteDepth ==
    (co.pc = "done" /\ co.reported = "bestMove" /\ co.lastComplete.d > 0) =>
        co.bestMove = co.lastComplete.move

\* C3 as claimed: once stopSearch is set, every node a worker enters finds the
\* flag set in its entry check and returns 0 at once
StopSeenAtEveryNodeEntry ==
    co.pc \in {"run", "report", "done"} => \A t \in 1..Len(wk) : ~wk[t].late

\* C7 as claimed: at a depth of which every root move was searched to the end,
\* the score of the root move the coordinator selects is the score a single
\* alphabetaTimed call on the root position returns for the side to move
RootChoiceEqualsSingleCall ==
    (co.pc \in {"depth", "run", "report", "done"} /\ co.lastComplete.d > 0) =>
        co.lastComplete.eval =
            alphabetaTimed(board, co.lastComplete.d, -INF, INF, board.whiteToMove,
                           EvalMatrixClear, 0, NoDeadline, FALSE).score

(***************************************************************************)
(* The workers of one search seen from their shared objects (uci.cpp, the  *)
(* search thread): the atomic counters next and g_nodes, the mutexes bestMu *)
(* and mergeMu, the root aggregate and standard output.  A worker's call of *)
(* alphabetaTimed is one step here; a write to standard output has a begin  *)
(* and an end, between which the line is being written.                     *)
(***************************************************************************)
MaxThreads == 2
MaxPoolDepth == 1

\* k7/8/1K6/8/8/8/8/7R b - - 0 1: Black has the single legal move a8b8
FenOneMove ==
    MkBoard(<< <<"k", ".", ".", ".", ".", ".", ".", ".">>,
               EmptyRow,
               <<".", "K", ".", ".", ".", ".", ".", ".">>,
               EmptyRow,
               EmptyRow,
               EmptyRow,
               EmptyRow,
               <<".", ".", ".", ".", ".", ".", ".", "R">> >>,
            FALSE, FALSE, FALSE, FALSE, FALSE, -1, 0, 1)

PoolBoards == {FenOneMove, FenTwoMoves, FenBareKings, FenStalemate}

\* the coordinator's name among the writers of standard output
Coordinator == MaxThreads + 1

\* next.fetch_add(k): the value the counter holds afterwards
fetch_add_lost(next, k) == next

fetch_add(next, k) == next + k

PoolInit ==
    /\ board \in PoolBoards
    /\ ply = 0
    /\ lastMove = Idle
    /\ outcome = "loaded"
    /\ prev = board
    /\ probe = NoProbe
    /\ pf = NoPerft
    /\ sr = NoSearch /\ co = NoCoordinator /\ wk = NoWorkers /\ env = NoEnv
    /\ pool = [pc |-> "off"]

\* what the search thread shares with its workers.  searched, stopped and the
\* two node totals are history: how often each root move was searched at this
\* depth, whether the deadline or the stop flag made a test succeed, the largest
\* node total printed before the last info line and the total of that line
PoolStart(b, threads) ==
    [pc |-> IF generateMoves(b) = <<>> THEN "bestmove" ELSE "depth",
     threads |-> threads,
     rootMoves |-> generateMoves(b),
     d |-> 1,
     bestMove |-> Idle, depthBest |-> Idle, depthBestEval |-> -INF, depthBestPV |-> <<>>,
     next |-> 0, g_nodes |-> 0,
     mergeMu |-> 0, merges |-> 0,
     writers |-> IF generateMoves(b) = <<>> THEN {Coordinator} ELSE {},
     searched |-> [i \in 1..Len(generateMoves(b)) |-> 0],
     earlierNodes |-> 0, lastNodes |-> 0,
     stopped |-> FALSE]

\* the search thread up to the depth loop; without a root move it starts writing
\* bestmove 0000
PoolGo ==
    /\ pool.pc = "off"
    /\ \E threads \in 1..MaxThreads : pool' = PoolStart(board, threads)
    /\ env' = [expired |-> FALSE, stopSearch |-> FALSE]
    /\ UNCHANGED <<board, ply, lastMove, outcome, prev, probe, pf, sr, co, wk>>

\* the head of the depth loop, then the workers are started
PoolDepth ==
    /\ pool.pc = "depth"
    /\ IF env.expired \/ env.stopSearch
       THEN /\ pool' = [pool EXCEPT !.pc = "bestmove", !.writers = @ \cup {Coordinator},
                                    !.stopped = TRUE]
            /\ UNCHANGED wk
       ELSE /\ pool' = [pool EXCEPT !.pc = "run", !.next = 0,
                                    !.depthBest = Idle, !.depthBestEval = -INF,
                                    !.depthBestPV = <<>>,
                                    !.searched = [i \in 1..Len(pool.rootMoves) |-> 0]]
            /\ wk' = [t \in 1..pool.threads |-> [pc |-> "fetch", i |-> 0, nodesNow |-> 0]]
    /\ UNCHANGED <<board, ply, lastMove, outcome, prev, probe, pf, sr, co, env>>

\* size_t i = next.fetch_add(1); if (i >= N) break
WFetch(t) ==
    /\ pool.pc = "run" /\ wk[t].pc = "fetch"
    /\ pool' = [pool EXCEPT !.next = fetch_add(@, 1)]
    /\ wk' = [wk EXCEPT ![t].i = pool.next + 1,
                        ![t].pc = IF pool.next >= Len(pool.rootMoves) THEN "done" ELSE "load"]
    /\ UNCHANGED <<board, ply, lastMove, outcome, prev, probe, pf, sr, co, env>>

\* nodesNow = g_nodes.load()
WLoadNodes(t) ==
    /\ pool.pc = "run" /\ wk[t].pc = "load"
    /\ wk' = [wk EXCEPT ![t].nodesNow = pool.g_nodes, ![t].pc = "print"]
    /\ UNCHANGED <<board, ply, lastMove, outcome, prev, probe, pf, sr, co, env, pool>>

\* a line with the node total n starts to be written by w
LineBegun(p, w, n) ==
    [p EXCEPT !.writers = @ \cup {w},
              !.earlierNodes = IF p.lastNodes > @ THEN p.lastNodes ELSE @,
              !.lastNodes = n]

\* std::cout << "info currmove " ... << std::endl: the worker starts to write
WPrintBegin(t) ==
    /\ pool.pc = "run" /\ wk[t].pc = "print"
    /\ pool' = LineBegun(pool, t, wk[t].nodesNow)
    /\ wk' = [wk EXCEPT ![t].pc = "printing"]
    /\ UNCHANGED <<board, ply, lastMove, outcome, prev, probe, pf, sr, co, env>>

\* the worker's line is written; then the test before the search
WPrintEnd(t) ==
    /\ pool.pc = "run" /\ wk[t].pc = "printing"
    /\ pool' = [pool EXCEPT !.writers = @ \ {t}]
    /\ wk' = [wk EXCEPT ![t].pc = "check"]
    /\ UNCHANGED <<board, ply, lastMove, outcome, prev, probe, pf, sr, co, env>>

\* if (now() >= deadline || stopSearch.load()) break
WCheck(t) ==
    /\ pool.pc = "run" /\ wk[t].pc = "check"
    /\ wk' = [wk EXCEPT ![t].pc = IF env.expired \/ env.stopSearch THEN "done" ELSE "store"]
    /\ pool' = [pool EXCEPT !.stopped = @ \/ env.expired \/ env.stopSearch]
    /\ UNCHANGED <<board, ply, lastMove, outcome, prev, probe, pf, sr, co, env>>

\* g_nodes.store(0); the worker then enters alphabetaTimed
WStoreNodes(t) ==
    /\ pool.pc = "run" /\ wk[t].pc = "store"
    /\ pool' = [pool EXCEPT !.g_nodes = 0, !.searched[wk[t].i] = @ + 1]
    /\ wk' = [wk EXCEPT ![t].pc = "search"]
    /\ UNCHANGED <<board, ply, lastMove, outcome, prev, probe, pf, sr, co, env>>

\* the pool after the worker's call returned r for the root move of index i:
\* the nodes were counted with fetch_add, the depth's best is updated under
\* bestMu
SearchDone(p, i, r) ==
    [p EXCEPT !.g_nodes = fetch_add(@, r.nodes),
              !.depthBestEval = IF r.score > p.depthBestEval THEN r.score ELSE @,
              !.depthBest = IF r.score > p.depthBestEval THEN p.rootMoves[i] ELSE @,
              !.depthBestPV = IF r.score > p.depthBestEval
                              THEN <<p.rootMoves[i]>> \o r.pv ELSE @]

\* the call of alphabetaTimed and the update of the depth's best
WSearch(t) ==
    /\ pool.pc = "run" /\ wk[t].pc = "search"
    /\ pool' = SearchDone(pool, wk[t].i,
                          SearchCall(board, pool.rootMoves[wk[t].i], pool.d,
                                     IF env.expired THEN 0 ELSE NoDeadline, FALSE))
    /\ wk' = [wk EXCEPT ![t].pc = "merge"]
    /\ UNCHANGED <<board, ply, lastMove, outcome, prev, probe, pf, sr, co, env>>

\* std::lock_guard<std::mutex> lk(mergeMu)
WMergeLock(t) ==
    /\ pool.pc = "run" /\ wk[t].pc = "merge"
    /\ pool.mergeMu = 0
    /\ pool' = [pool EXCEPT !.mergeMu = t]
    /\ wk' = [wk EXCEPT ![t].pc = "merging"]
    /\ UNCHANGED <<board, ply, lastMove, outcome, prev, probe, pf, sr, co, env>>

\* agg.mergeFrom(history), (killers), (tt); the lock is released
WMergeUnlock(t) ==
    /\ pool.pc = "run" /\ wk[t].pc = "merging"
    /\ pool' = [pool EXCEPT !.mergeMu = 0, !.merges = 1]
    /\ wk' = [wk EXCEPT ![t].pc = "after"]
    /\ UNCHANGED <<board, ply, lastMove, outcome, prev, probe, pf, sr, co, env>>

\* if (now() >= deadline) break
WAfter(t) ==
    /\ pool.pc = "run" /\ wk[t].pc = "after"
    /\ wk' = [wk EXCEPT ![t].pc = IF env.expired THEN "done" ELSE "fetch"]
    /\ pool' = [pool EXCEPT !.stopped = @ \/ env.expired]
    /\ UNCHANGED <<board, ply, lastMove, outcome, prev, probe, pf, sr, co, env>>

\* the workers are joined; nodes = g_nodes.load(), the global best is updated
\* and the info depth line starts to be written
PoolJoin ==
    /\ pool.pc = "run"
    /\ \A t \in 1..Len(wk) : wk[t].pc = "done"
    /\ pool' = [LineBegun(pool, Coordinator, pool.g_nodes) EXCEPT
                   !.pc = "info",
                   !.bestMove = IF pool.depthBestPV # <<>> THEN pool.depthBest ELSE @]
    /\ UNCHANGED <<board, ply, lastMove, outcome, prev, probe, pf, sr, co, wk, env>>

\* the info depth line is written; the loop ends on the deadline or the depth
\* limit, and bestmove starts to be written
InfoWritten ==
    /\ pool.pc = "info"
    /\ pool' = IF env.expired \/ pool.d + 1 > MaxPoolDepth
               THEN [pool EXCEPT !.pc = "bestmove"]
               ELSE [pool EXCEPT !.pc = "depth", !.d = @ + 1, !.writers = @ \ {Coordinator}]
    /\ UNCHANGED <<board, ply, lastMove, outcome, prev, probe, pf, sr, co, wk, env>>

\* the bestmove line is written and the search thread ends
BestmoveWritten ==
    /\ pool.pc = "bestmove"
    /\ pool' = [pool EXCEPT !.pc = "done", !.writers = @ \ {Coordinator}]
    /\ UNCHANGED <<board, ply, lastMove, outcome, prev, probe, pf, sr, co, wk, env>>

\* the clock reaches the deadline
PoolDeadline ==
    /\ pool.pc \in {"depth", "run", "info"}
    /\ ~env.expired
    /\ env' = [env EXCEPT !.expired = TRUE]
    /\ UNCHANGED <<board, ply, lastMove, outcome, prev, probe, pf, sr, pool, co, wk>>

\* the command stop: stopSearch = true
PoolStop ==
    /\ pool.pc \in {"depth", "run", "info"}
    /\ ~env.stopSearch
    /\ env' = [env EXCEPT !.stopSearch = TRUE]
    /\ UNCHANGED <<board, ply, lastMove, outcome, prev, probe, pf, sr, pool, co, wk>>

PoolNext ==
    \/ PoolGo
    \/ PoolDepth
    \/ \E t \in 1..Len(wk) : WFetch(t)
    \/ \E t \in 1..Len(wk) : WLoadNodes(t)
    \/ \E t \in 1..Len(wk) : WPrintBegin(t)
    \/ \E t \in 1..Len(wk) : WPrintEnd(t)
    \/ \E t \in 1..Len(wk) : WCheck(t)
    \/ \E t \in 1..Len(wk) : WStoreNodes(t)
    \/ \E t \in 1..Len(wk) : WSearch(t)
    \/ \E t \in 1..Len(wk) : WMergeLock(t)
    \/ \E t \in 1..Len(wk) : WMergeUnlock(t)
    \/ \E t \in 1..Len(wk) : WAfter(t)
    \/ PoolJoin
    \/ InfoWritten
    \/ BestmoveWritten
    \/ PoolDeadline
    \/ PoolStop

SpecPool == PoolInit /\ [][PoolNext]_vars

(***************************************************************************)
(* search-mt-copy.cpp findBestMoveParallel: one task per root move on a     *)
(* thread pool, every task given the same pvLine by reference               *)
(***************************************************************************)
MaxParallelDepth == 2

ParallelBoards == {FenOneMove, FenTwoMoves, FenBareKings, FenStalemate}

ParallelInit ==
    /\ board \in ParallelBoards
    /\ ply = 0
    /\ lastMove = Idle
    /\ outcome = "loaded"
    /\ prev = board
    /\ probe = NoProbe
    /\ pf = NoPerft
    /\ sr = NoSearch /\ co = NoCoordinator /\ wk = NoWorkers /\ env = NoEnv
    /\ pool = [pc |-> "off"]

\* int score = evaluate(applyMove(board, m))
EvaluatedScore(b, m) == evaluate(EvalMatrixClear, applyMove(b, m).board).score

RECURSIVE BestByEvaluate(_, _, _, _, _)
\* the loop of the depth 1 branch from move k on
BestByEvaluate(b, moves, k, bestScore, bestMove) ==
    IF k > Len(moves) THEN bestMove
    ELSE IF EvaluatedScore(b, moves[k]) > bestScore
    THEN BestByEvaluate(b, moves, k + 1, EvaluatedScore(b, moves[k]), moves[k])
    ELSE BestByEvaluate(b, moves, k + 1, bestScore, bestMove)

\* findBestMoveParallel up to the loop that waits for the futures: the early
\* returns, the depth 1 branch, else the pool, pvLine, localStop and one
\* enqueued task per move
ParallelStart(b, moves, depth, threads) ==
    [pc |-> IF Len(moves) <= 1 \/ depth = 1 THEN "done" ELSE "collect",
     threads |-> threads,
     depth |-> depth,
     moves |-> moves,
     pvLine |-> <<>>, pvWriters |-> {},
     localStop |-> FALSE,
     g_nodes |-> 0,
     i |-> 1,
     bestScore |-> -INF,
     bestMove |-> IF moves = <<>> THEN Idle
                  ELSE IF Len(moves) > 1 /\ depth = 1
                  THEN BestByEvaluate(b, moves, 1, -INF, moves[1])
                  ELSE moves[1]]

findBestMoveParallel ==
    /\ pool.pc = "off"
    /\ \E depth \in 0..MaxParallelDepth, threads \in 1..MaxThreads :
           /\ pool' = ParallelStart(board, generateMoves(board),
                                    IF depth < 1 THEN 1 ELSE depth, threads)
           /\ wk' = IF pool'.pc = "collect"
                    THEN [k \in 1..Len(pool'.moves) |-> [pc |-> "queued", score |-> 0, pv |-> <<>>]]
                    ELSE NoWorkers
    /\ env' = NoEnv
    /\ UNCHANGED <<board, ply, lastMove, outcome, prev, probe, pf, sr, co>>

\* the tasks some pool thread is running
Running == {k \in 1..Len(wk) : wk[k].pc \in {"search", "writing"}}

\* a free thread of the pool takes the oldest task of the queue
TaskTaken(k) ==
    /\ pool.pc = "collect" /\ wk[k].pc = "queued"
    /\ \A j \in 1..(k - 1) : wk[j].pc # "queued"
    /\ Cardinality(Running) < pool.threads
    /\ wk' = [wk EXCEPT ![k].pc = "search"]
    /\ UNCHANGED <<board, ply, lastMove, outcome, prev, probe, pf, sr, pool, co, env>>

\* the task's call alphabetaTimed(next, depth - 1, -INF, INF, false, deadline,
\* localStop, pvLine)
TaskCall(root, m, depth, limit, stop) ==
    alphabetaTimed(applyMove(root, m).board, depth - 1, -INF, INF, FALSE,
                   EvalMatrixClear, 0, limit, stop)

\* the task's search came to its end with r: the nodes were counted with
\* fetch_add; a search that ended its loop over the moves now writes pv
TaskSearched(k) ==
    /\ pool.pc = "collect" /\ wk[k].pc = "search"
    /\ \E r \in {TaskCall(board, pool.moves[k], pool.depth,
                          IF env.expired THEN 0 ELSE NoDeadline, pool.localStop)} :
           /\ wk' = [wk EXCEPT ![k] = [pc |-> IF r.pv = <<>> THEN "done" ELSE "writing",
                                       score |-> r.score, pv |-> r.pv]]
           /\ pool' = [pool EXCEPT !.g_nodes = fetch_add(@, r.nodes),
                                   !.pvWriters = IF r.pv = <<>> THEN @ ELSE @ \cup {k}]
    /\ UNCHANGED <<board, ply, lastMove, outcome, prev, probe, pf, sr, co, env>>

\* what pvLine holds after task k ended pv.clear(); pv.push_back(bestMove);
\* pv.insert(...): its own line when no other task was writing the vector, else
\* the line of any of the writers or elements of two of them
PvOutcomes(k) ==
    IF pool.pvWriters = {k} THEN {wk[k].pv}
    ELSE {wk[j].pv : j \in pool.pvWriters}
             \cup {wk[k].pv \o wk[j].pv : j \in pool.pvWriters \ {k}}

\* pv.clear(); pv.push_back(bestMove); pv.insert(pv.end(), bestLine...) is done
TaskWrote(k) ==
    /\ pool.pc = "collect" /\ wk[k].pc = "writing"
    /\ \E line \in PvOutcomes(k) :
           pool' = [pool EXCEPT !.pvLine = line, !.pvWriters = @ \ {k}]
    /\ wk' = [wk EXCEPT ![k].pc = "done"]
    /\ UNCHANGED <<board, ply, lastMove, outcome, prev, probe, pf, sr, co, env>>

\* one iteration of the loop over the futures: past the deadline localStop is
\* set and the loop left, else futures[i].get() waits for task i
Collect ==
    /\ pool.pc = "collect"
    /\ IF env.expired
       THEN pool' = [pool EXCEPT !.localStop = TRUE, !.pc = "done"]
       ELSE /\ wk[pool.i].pc = "done"
            /\ pool' = [pool EXCEPT
                   !.bestScore = IF wk[pool.i].score > @ THEN wk[pool.i].score ELSE @,
                   !.bestMove = IF wk[pool.i].score > pool.bestScore
                                THEN pool.moves[pool.i] ELSE @,
                   !.i = @ + 1,
                   !.pc = IF pool.i + 1 > Len(pool.moves) THEN "done" ELSE "collect"]
    /\ UNCHANGED <<board, ply, lastMove, outcome, prev, probe, pf, sr, co, wk, env>>

\* the clock passes the deadline
ParallelDeadline ==
    /\ pool.pc = "collect"
    /\ ~env.expired
    /\ env' = [env EXCEPT !.expired = TRUE]
    /\ UNCHANGED <<board, ply, lastMove, outcome, prev, probe, pf, sr, pool, co, wk>>

ParallelNext ==
    \/ findBestMoveParallel
    \/ \E k \in 1..Len(wk) : TaskTaken(k)
    \/ \E k \in 1..Len(wk) : TaskSearched(k)
    \/ \E k \in 1..Len(wk) : TaskWrote(k)
    \/ Collect
    \/ ParallelDeadline

SpecParallel == ParallelInit /\ [][ParallelNext]_vars

(***************************************************************************)
(* heuristics.h: the transposition table and the killer table of a thread   *)
(***************************************************************************)
TableSize == 2
MaxOps == 3

\* TTEntry{}
NoEntry == [key |-> 0, score |-> 0, depth |-> 0, flag |-> 0, best |-> Idle, age |-> 0]

\* (int16_t)score
int16_t(x) == ((x + 32768) % 65536) - 32768

\* the keys, scores, depths and ages the operations are called with
TTKeys == 1..3
TTScores == {-70, 40000}
TTDepths == 1..2
TTAges == 0..1
KillerPlies == 0..1
KillerMoves == {Move(6, 4, 4, 4, FALSE, FALSE, "", 0),
                Move(7, 6, 5, 5, FALSE, FALSE, "", 0),
                Move(7, 1, 5, 2, FALSE, FALSE, "", 0)}

\* TransTable::store on the vector table
store(table, key, score, depth, flag, best, age) ==
    IF table[key % TableSize].key = 0 \/ depth >= table[key % TableSize].depth
    THEN [table EXCEPT ![key % TableSize] =
              [key |-> key, score |-> int16_t(score), depth |-> depth, flag |-> flag,
               best |-> best, age |-> age]]
    ELSE table

\* TransTable::mergeFrom
mergeFrom(table, other) ==
    [i \in 0..(TableSize - 1) |->
        IF other[i].key = 0 THEN table[i]
        ELSE IF \/ table[i].key = 0
                \/ other[i].depth > table[i].depth
                \/ (other[i].depth = table[i].depth /\ other[i].age > table[i].age)
        THEN other[i]
        ELSE table[i]]

\* KillerTable::add on the two arrays k1 and k2
add(killers, p, m) ==
    IF MoveEq(m, killers.k1[p]) \/ MoveEq(m, killers.k2[p]) THEN killers
    ELSE [k1 |-> [killers.k1 EXCEPT ![p] = m],
          k2 |-> [killers.k2 EXCEPT ![p] = killers.k1[p]]]

\* a thread's tables after clear(); last is the operation applied last, with
\* the tables before it
HeuristicsInit ==
    /\ board = getInitialBoard
    /\ ply = 0
    /\ lastMove = Idle
    /\ outcome = "loaded"
    /\ prev = board
    /\ probe = NoProbe
    /\ pf = NoPerft
    /\ sr = NoSearch /\ co = NoCoordinator /\ wk = NoWorkers /\ env = NoEnv
    /\ pool = [pc |-> "tables", ops |-> 0,
               tt |-> [i \in 0..(TableSize - 1) |-> NoEntry],
               killers |-> [k1 |-> [p \in KillerPlies |-> Idle],
                            k2 |-> [p \in KillerPlies |-> Idle]],
               last |-> [op |-> "clear"]]

Store ==
    /\ pool.pc = "tables" /\ pool.ops < MaxOps
    /\ \E key \in TTKeys, score \in TTScores, depth \in TTDepths, age \in TTAges :
           pool' = [pool EXCEPT !.ops = @ + 1,
                                !.tt = store(@, key, score, depth, 0, Idle, age),
                                !.last = [op |-> "store", key |-> key, score |-> score,
                                          depth |-> depth, age |-> age,
                                          before |-> pool.tt[key % TableSize]]]
    /\ UNCHANGED <<board, ply, lastMove, outcome, prev, probe, pf, sr, co, wk, env>>

MergeFrom ==
    /\ pool.pc = "tables" /\ pool.ops < MaxOps
    /\ \E key \in TTKeys, score \in TTScores, depth \in TTDepths, age \in TTAges :
           pool' = [pool EXCEPT
                        !.ops = @ + 1,
                        !.tt = mergeFrom(@, store([i \in 0..(TableSize - 1) |-> NoEntry],
                                                  key, score, depth, 0, Idle, age)),
                        !.last = [op |-> "mergeFrom"]]
    /\ UNCHANGED <<board, ply, lastMove, outcome, prev, probe, pf, sr, co, wk, env>>

Add ==
    /\ pool.pc = "tables" /\ pool.ops < MaxOps
    /\ \E p \in KillerPlies, m \in KillerMoves :
           pool' = [pool EXCEPT !.ops = @ + 1,
                                !.killers = add(@, p, m),
                                !.last = [op |-> "add", ply |-> p, m |-> m,
                                          before |-> pool.killers]]
    /\ UNCHANGED <<board, ply, lastMove, outcome, prev, probe, pf, sr, co, wk, env>>

HeuristicsNext == Store \/ MergeFrom \/ Add

SpecHeuristics == HeuristicsInit /\ [][HeuristicsNext]_vars

(***************************************************************************)
(* The position command: engine.cpp parsePosition and moveToUci, uci.cpp   *)
(* runUciLoop                                                               *)
(***************************************************************************)
MaxMoves == 2
MaxCommands == 1

\* the character codes the move text is computed with
Chars == {"a", "b", "c", "d", "e", "f", "g", "h", "n", "q", "r",
          "0", "1", "2", "3", "4", "5", "6", "7", "8", "9"}

Ord(c) ==
    CASE c = "a" -> 97 [] c = "b" -> 98 [] c = "c" -> 99 [] c = "d" -> 100
      [] c = "e" -> 101 [] c = "f" -> 102 [] c = "g" -> 103 [] c = "h" -> 104
      [] c = "n" -> 110 [] c = "q" -> 113 [] c = "r" -> 114
      [] c = "0" -> 48 [] c = "1" -> 49 [] c = "2" -> 50 [] c = "3" -> 51
      [] c = "4" -> 52 [] c = "5" -> 53 [] c = "6" -> 54 [] c = "7" -> 55
      [] c = "8" -> 56 [] c = "9" -> 57

Chr(n) == CHOOSE c \in Chars : Ord(c) = n

\* moveToUci: a move token is the sequence of its characters
moveToUci(m) ==
    <<Chr(Ord("a") + m.fromCol), Chr(Ord("8") - m.fromRow),
      Chr(Ord("a") + m.toCol), Chr(Ord("8") - m.toRow)>>
    \o (IF m.promotion # "" THEN <<tolower(m.promotion)>> ELSE <<>>)

\* the move parsePosition builds from a token: both flags false
TokenMove(token) ==
    Move(8 - (Ord(token[2]) - Ord("0")), Ord(token[1]) - Ord("a"),
         8 - (Ord(token[4]) - Ord("0")), Ord(token[3]) - Ord("a"),
         FALSE, FALSE, IF Len(token) = 5 THEN token[5] ELSE "", 0)

\* the while (iss >> token) loop
RECURSIVE ApplyTokens(_, _)
ApplyTokens(b, tokens) ==
    IF tokens = <<>> THEN b
    ELSE ApplyTokens(applyMove(b, TokenMove(Head(tokens))).board, Tail(tokens))

\* a command line: kind is the word after "position", fen the board loadFEN
\* returns for the six FEN fields, moves the tokens after "moves"
PositionLine(kind, fen, moves) == [kind |-> kind, fen |-> fen, moves |-> moves]

parsePosition(input, b) ==
    IF input.kind = "startpos" THEN ApplyTokens(getInitialBoard, input.moves)
    ELSE IF input.kind = "fen" THEN ApplyTokens(input.fen, input.moves)
    ELSE b

\* the moves of generateMoves(b) written as the token
Matching(b, token) ==
    IF generateMovesThrows(b) THEN <<>>
    ELSE SelectSeq(generateMoves(b), LAMBDA m : moveToUci(m) = token)

\* the lines of at most n legal moves from b
RECURSIVE LegalLines(_, _)
LegalLines(b, n) ==
    IF n = 0 \/ generateMovesThrows(b) THEN {<<>>}
    ELSE LET ms == generateMoves(b) IN
         {<<>>} \cup UNION {{<<moveToUci(ms[k])>> \o rest :
                               rest \in LegalLines(applyMove(b, ms[k]).board, n - 1)} :
                            k \in 1..Len(ms)}

\* b after the generator's moves matching the tokens were applied in order
RECURSIVE Reference(_, _)
Reference(b, tokens) ==
    IF tokens = <<>> \/ Matching(b, Head(tokens)) = <<>> THEN b
    ELSE Reference(applyMove(b, Matching(b, Head(tokens))[1]).board, Tail(tokens))

\* every token is a move the generator returns on the board reached so far
RECURSIVE IsLegalLine(_, _)
IsLegalLine(b, tokens) ==
    \/ tokens = <<>>
    \/ /\ Matching(b, Head(tokens)) # <<>>
       /\ IsLegalLine(applyMove(b, Matching(b, Head(tokens))[1]).board, Tail(tokens))

\* tokens tried as the last move of a line: e2e5 and h1h3 (moves the piece
\* cannot make), e4e5 (empty source square), e7e5 and e8e7 (a piece of the side
\* not to move), e1e2 and h1h2 (the king stays attacked in FenCheck)
TokenCandidates ==
    {<<"e", "2", "e", "5">>, <<"h", "1", "h", "3">>, <<"e", "4", "e", "5">>,
     <<"e", "7", "e", "5">>, <<"e", "8", "e", "7">>, <<"e", "1", "e", "2">>,
     <<"h", "1", "h", "2">>}

\* the boards of the "position fen" lines
PositionFens == {FenCheck, FenCastleK, FenCastleQ, FenEnPassant, FenS4, FenDoublePush}

PositionBases ==
    {PositionLine("startpos", getInitialBoard, <<>>)}
    \cup {PositionLine("fen", f, <<>>) : f \in PositionFens}

\* the lines of legal moves, and the lines whose last token is no legal move
LegalPositionLines(n) ==
    UNION {{PositionLine(p.kind, p.fen, l) : l \in LegalLines(p.fen, n)} :
           p \in PositionBases}

IllegalPositionLines(n) ==
    UNION {UNION {{PositionLine(p.kind, p.fen, l \o <<t>>) :
                     t \in {c \in TokenCandidates : Matching(Reference(p.fen, l), c) = <<>>}} :
                  l \in LegalLines(p.fen, n - 1)} :
           p \in PositionBases}

PositionLines(n) ==
    LegalPositionLines(n) \cup IllegalPositionLines(n)
    \cup {PositionLine("", getInitialBoard, <<>>)}

\* runUciLoop starts from the initial board
PositionInit ==
    /\ board = getInitialBoard
    /\ ply = 0
    /\ lastMove = Idle
    /\ outcome = "ready"
    /\ prev = board
    /\ probe = NoProbe
    /\ pf = NoPerft
    /\ sr = NoSearch /\ pool = NoPool /\ co = NoCoordinator /\ wk = NoWorkers
    /\ env = [line |-> PositionLine("", getInitialBoard, <<>>)]

\* the "position" branch of runUciLoop
Position ==
    /\ ply < MaxCommands
    /\ \E line \in PositionLines(MaxMoves) :
           /\ board' = parsePosition(line, board)
           /\ env' = [line |-> line]
    /\ prev' = board
    /\ outcome' = "position"
    /\ ply' = ply + 1
    /\ UNCHANGED <<lastMove, probe, pf, sr, pool, co, wk>>

\* the "ucinewgame" branch of runUciLoop
UciNewGame ==
    /\ outcome = "position"
    /\ board' = getInitialBoard
    /\ prev' = board
    /\ outcome' = "ucinewgame"
    /\ UNCHANGED <<ply, lastMove, probe, pf, sr, pool, co, wk, env>>

PositionNext == Position \/ UciNewGame

SpecPosition == PositionInit /\ [][PositionNext]_vars

(***************************************************************************)
(* engine.cpp: Zobrist hashing.  The tables hold independent random 64-bit *)
(* values; a key is modelled as the set of table entries XORed into it an  *)
(* odd number of times, so two keys are equal when the same entries went in *)
(***************************************************************************)
pieceToIndex(p) ==
    CASE p = "P" -> 0 [] p = "N" -> 1 [] p = "B" -> 2 [] p = "R" -> 3
      [] p = "Q" -> 4 [] p = "K" -> 5 [] p = "p" -> 6 [] p = "n" -> 7
      [] p = "b" -> 8 [] p = "r" -> 9 [] p = "q" -> 10 [] p = "k" -> 11
      [] OTHER -> -1

\* h ^ v for keys given as sets of table entries
Xor(h, v) == (h \ v) \cup (v \ h)

\* the piece loop: every occupied square XORs its own entry in, once
HashPieces(b) ==
    {<<"pieceHash", pieceToIndex(b.pieces[sq]), sq>> :
        sq \in {s \in 0..63 : pieceToIndex(b.pieces[s]) # -1}}

\* Zobrist::computeHash
computeHash(b) ==
    LET h1 == Xor({}, HashPieces(b))
        h2 == IF b.whiteToMove THEN Xor(h1, {<<"whiteToMoveHash">>}) ELSE h1
        h3 == IF b.canCastleK THEN Xor(h2, {<<"castlingHash", 0>>}) ELSE h2
        h4 == IF b.canCastleQ THEN Xor(h3, {<<"castlingHash", 1>>}) ELSE h3
        h5 == IF b.canCastlek THEN Xor(h4, {<<"castlingHash", 2>>}) ELSE h4
        h6 == IF b.canCastleq THEN Xor(h5, {<<"castlingHash", 3>>}) ELSE h5
    IN  IF b.enPassantTarget # -1
        THEN Xor(h6, {<<"enPassantFileHash", b.enPassantTarget % 8>>})
        ELSE h6

(***************************************************************************)
(* Properties of the game                                                  *)
(***************************************************************************)
\* the side that made the last move
Mover(b) == Opposite(SideToMove(b))

\* C1: after every move returned by generateMoves is applied, the king of the
\* side that moved is not attacked by the opponent; in particular a move made
\* while in check escapes the check
MoverKingNotAttacked ==
    outcome = "moved" =>
        \A s \in KingSquares(board, Mover(board)) : ~attacked(board, s, SideToMove(board))

\* a generated move was applied from a position where the mover was in check
EscapedFromCheck ==
    /\ outcome = "moved"
    /\ KingSquares(prev, SideToMove(prev)) # {}
    /\ inCheck(prev, SideToMove(prev))
    /\ \A s \in KingSquares(board, Mover(board)) : ~attacked(board, s, SideToMove(board))

\* the castling preconditions, for the side to move of b and the wing m.toCol
\* names: the right is set, king and rook stand on their origin squares, the
\* squares between them are empty, and the king's origin, transit and
\* destination squares are not attacked by the enemy
CastlingPreconditions(b, m) ==
    LET white == b.whiteToMove
        row == IF white THEN 7 ELSE 0
        kingside == m.toCol = 6
        enemy == IF white THEN BLACK ELSE WHITE
        right == IF white THEN (IF kingside THEN b.canCastleK ELSE b.canCastleQ)
                          ELSE (IF kingside THEN b.canCastlek ELSE b.canCastleq)
        between == IF kingside THEN {5, 6} ELSE {1, 2, 3}
        kingPath == IF kingside THEN {4, 5, 6} ELSE {4, 3, 2}
    IN  /\ m.toCol \in {2, 6}
        /\ m.fromRow = row /\ m.fromCol = 4 /\ m.toRow = row
        /\ right
        /\ b.pieces[SQUARE(row, 4)] = (IF white THEN "K" ELSE "k")
        /\ b.pieces[SQUARE(row, IF kingside THEN 7 ELSE 0)] = (IF white THEN "R" ELSE "r")
        /\ \A c \in between : b.pieces[SQUARE(row, c)] = "."
        /\ \A c \in kingPath : ~attacked(b, SQUARE(row, c), enemy)

\* C9: the generator emits a castling move only when the castling preconditions
\* hold on the board; with a black piece covering f1 the list holds no e1g1
CastlingOnlyWhenAllowed ==
    LET pm == generatePseudoLegalMoves(board) IN
    /\ \A k \in 1..Len(pm) : pm[k].isCastling => CastlingPreconditions(board, pm[k])
    /\ (board.whiteToMove /\ attacked(board, F1, BLACK)) =>
           \A k \in 1..Len(pm) :
               ~(SQUARE(pm[k].fromRow, pm[k].fromCol) = E1 /\ SQUARE(pm[k].toRow, pm[k].toCol) = G1)

\* the generator emits a castling move on the current board
CastlingEmitted ==
    LET pm == generatePseudoLegalMoves(board) IN
    \E k \in 1..Len(pm) : pm[k].isCastling /\ CastlingPreconditions(board, pm[k])

\* C10 as claimed: applyMove with a move flagged isCastling throws whenever a
\* castling precondition is not met on the given board
CastlingRejectedWhenNotAllowed ==
    (probe.called /\ ~CastlingPreconditions(probe.on, probe.move)) => probe.threw

\* the four castling rights of a board
Rights(b) == <<b.canCastleK, b.canCastleQ, b.canCastlek, b.canCastleq>>

\* the rights a move from square from to square to takes away: both rights of a
\* king leaving its origin square, and the right of a rook's origin square the
\* move starts or ends on
RightsTaken(from, to) ==
    <<from = E1 \/ from = H1 \/ to = H1, from = E1 \/ from = A1 \/ to = A1,
      from = E8 \/ from = H8 \/ to = H8, from = E8 \/ from = A8 \/ to = A8>>

\* applyMove(b, m) returned a: no right is gained, and every right m takes is lost
RightsOnlyLost(b, m, a) ==
    \A i \in 1..4 :
        /\ Rights(a)[i] => Rights(b)[i]
        /\ RightsTaken(SQUARE(m.fromRow, m.fromCol), SQUARE(m.toRow, m.toCol))[i]
               => ~Rights(a)[i]

\* C11: a castling right that is false never becomes true again over any
\* sequence of applyMove calls, and after a move that starts on the king's origin
\* square (both rights) or starts or ends on a rook's origin square (that right)
\* the right is false in the returned board and in every later board
CastlingRightsOnlyLost ==
    /\ outcome = "moved" => RightsOnlyLost(prev, lastMove, board)
    /\ (probe.called /\ ~probe.threw) => RightsOnlyLost(probe.on, probe.move, probe.board)

\* white lost its right on the first move and still lacks it after the second
\* move, with which black gave up a right of its own
RightLostAndStaysLost ==
    /\ ply = 2 /\ outcome = "moved"
    /\ \A i \in 1..2 : ~Rights(prev)[i] /\ ~Rights(board)[i]
    /\ \E i \in 3..4 : Rights(prev)[i] /\ ~Rights(board)[i]

\* C12 as claimed: in the board applyMove returns, the en passant target is the
\* square between source and destination exactly when a pawn advanced two
\* ranks, and otherwise holds the "no target" value -1 that the generator, the
\* FEN writer and the Zobrist hash test for
EnPassantTargetSetOrCleared ==
    outcome = "moved" =>
        LET from == SQUARE(lastMove.fromRow, lastMove.fromCol)
            to == SQUARE(lastMove.toRow, lastMove.toCol)
        IN  board.enPassantTarget =
                IF tolower(prev.pieces[from]) = "p" /\ Abs(from - to) = 16
                THEN (from + to) \div 2 ELSE -1

\* C13: applying a generated en passant move puts the capturing pawn on the en
\* passant target square, empties its source square, removes the enemy pawn
\* standing on the source's rank and the destination's file, and leaves every
\* other square unchanged; from the S3 position e5d6 removes the black pawn on
\* d5 and puts a white pawn on d6
EnPassantFrame ==
    /\ (outcome = "moved" /\ lastMove.isEnPassant) =>
           LET from == SQUARE(lastMove.fromRow, lastMove.fromCol)
               to == SQUARE(lastMove.toRow, lastMove.toCol)
               taken == SQUARE(lastMove.fromRow, lastMove.toCol)
               pawn == IF prev.whiteToMove THEN "P" ELSE "p"
               enemy == IF prev.whiteToMove THEN "p" ELSE "P"
           IN  /\ to = prev.enPassantTarget
               /\ prev.pieces[from] = pawn /\ prev.pieces[taken] = enemy
               /\ prev.pieces[to] = "."
               /\ board.pieces[to] = pawn
               /\ board.pieces[from] = "." /\ board.pieces[taken] = "."
               /\ \A s \in (0..63) \ {from, to, taken} : board.pieces[s] = prev.pieces[s]
    /\ (outcome = "moved" /\ prev = FenS3 /\ lastMove.fromRow = 3 /\ lastMove.fromCol = 4
           /\ lastMove.toRow = 2 /\ lastMove.toCol = 3) =>
           /\ lastMove.isEnPassant
           /\ board.pieces[SQUARE(3, 3)] = "." /\ board.pieces[SQUARE(2, 3)] = "P"

\* e5d6 was played from the S3 position
EnPassantPlayedFromS3 ==
    /\ outcome = "moved" /\ prev = FenS3 /\ lastMove.isEnPassant
    /\ board.pieces[SQUARE(2, 3)] = "P" /\ board.pieces[SQUARE(3, 3)] = "." /\ board.pieces[SQUARE(3, 4)] = "."

\* black captured en passant on the move after a white double push
EnPassantPlayedByBlack ==
    /\ outcome = "moved" /\ ply = 2 /\ lastMove.isEnPassant /\ ~prev.whiteToMove

\* the generated move m of board b takes a pawn to its last rank
ReachesLastRank(b, m) ==
    /\ PieceType(b, SQUARE(m.fromRow, m.fromCol)) = PAWN
    /\ m.toRow = (IF b.whiteToMove THEN 0 ELSE 7)

\* the number of generated moves of pm with the source and destination of m
\* and the promotion piece c
PromotionCount(pm, m, c) ==
    Cardinality({k \in 1..Len(pm) :
                    /\ pm[k].fromRow = m.fromRow /\ pm[k].fromCol = m.fromCol
                    /\ pm[k].toRow = m.toRow /\ pm[k].toCol = m.toCol
                    /\ pm[k].promotion = c})

\* C14: every generated move that takes a pawn to its last rank, by a push or a
\* capture, carries a promotion piece, and there are exactly four such moves
\* for each source and destination, one for each of n, b, r, q; no other
\* generated move carries a promotion; applying a promotion move leaves the
\* promoted piece of the mover's colour on the destination and no pawn on the
\* source; from the S4 position a7a8q leaves a white queen on a8
PromotionsGeneratedAndApplied ==
    LET pm == generatePseudoLegalMoves(board) IN
    /\ \A k \in 1..Len(pm) :
           /\ (pm[k].promotion # "") <=> ReachesLastRank(board, pm[k])
           /\ pm[k].promotion \in {"", "n", "b", "r", "q"}
           /\ ReachesLastRank(board, pm[k]) =>
                  /\ \A c \in {"n", "b", "r", "q"} : PromotionCount(pm, pm[k], c) = 1
                  /\ PromotionCount(pm, pm[k], "") = 0
    /\ (outcome = "moved" /\ lastMove.promotion # "") =>
           /\ board.pieces[SQUARE(lastMove.toRow, lastMove.toCol)] =
                  (IF prev.whiteToMove THEN toupper(lastMove.promotion)
                                       ELSE tolower(lastMove.promotion))
           /\ board.pieces[SQUARE(lastMove.toRow, lastMove.toCol)] \notin {"P", "p"}
           /\ board.pieces[SQUARE(lastMove.fromRow, lastMove.fromCol)] = "."
    /\ (outcome = "moved" /\ prev = FenS4 /\ lastMove.promotion = "q") =>
           board.pieces[A8] = "Q" /\ board.pieces[SQUARE(1, 0)] = "."

\* a7a8q was played from the S4 position
PromotedFromS4 ==
    /\ outcome = "moved" /\ prev = FenS4 /\ lastMove.promotion = "q"
    /\ board.pieces[A8] = "Q"

\* black promoted to a knight by a capture
PromotedByCapture ==
    /\ outcome = "moved" /\ ~prev.whiteToMove /\ lastMove.promotion = "n"
    /\ prev.pieces[SQUARE(lastMove.toRow, lastMove.toCol)] # "."
    /\ board.pieces[SQUARE(lastMove.toRow, lastMove.toCol)] = "n"

\* C15: from a board with exactly one king of each colour, the board returned
\* by applyMove for a move of generateMoves again holds exactly one white and
\* one black king
OneKingEach ==
    (outcome = "moved" /\ \A c \in {WHITE, BLACK} : Cardinality(KingSquares(prev, c)) = 1) =>
        \A c \in {WHITE, BLACK} : Cardinality(KingSquares(board, c)) = 1

\* a generated capture was applied on the second move and both kings remain
CaptureMadeWithBothKingsLeft ==
    /\ outcome = "moved" /\ ply = 2
    /\ prev.pieces[SQUARE(lastMove.toRow, lastMove.toCol)] # "."
    /\ \A c \in {WHITE, BLACK} :
           Cardinality(KingSquares(prev, c)) = 1 /\ Cardinality(KingSquares(board, c)) = 1

\* C16 as claimed: for every line of legal moves in long algebraic form, the
\* board parsePosition produces equals the board obtained by applying in order
\* the matching moves of the move generator; e1g1 also relocates the rook and
\* e5d6 also removes the captured pawn
PositionEqualsGeneratorMoves ==
    (outcome = "position" /\ env.line.kind # ""
        /\ IsLegalLine(env.line.fen, env.line.moves)) =>
        board = Reference(env.line.fen, env.line.moves)

\* C17 as claimed: when a position command supplies a move that cannot legally
\* be applied to the board reached so far, the command is ignored: the engine's
\* board after the command equals its board before the command
IllegalMoveIgnored ==
    (outcome = "position" /\ env.line.kind # ""
        /\ ~IsLegalLine(env.line.fen, env.line.moves)) =>
        board = prev

\* C18 as claimed: two moves compare equal exactly when they have the same
\* source, destination and promotion piece; the score and the castling and en
\* passant flags do not affect equality, and two promotions of the same pawn to
\* different pieces are unequal
MoveEqualityBySourceDestinationPromotion ==
    LET pm == generatePseudoLegalMoves(board) IN
    /\ \A i, j \in 1..Len(pm) :
           MoveEq(pm[i], pm[j]) <=>
               /\ pm[i].fromRow = pm[j].fromRow /\ pm[i].fromCol = pm[j].fromCol
               /\ pm[i].toRow = pm[j].toRow /\ pm[i].toCol = pm[j].toCol
               /\ pm[i].promotion = pm[j].promotion
    /\ \A i \in 1..Len(pm) : MoveEq(pm[i], TokenMove(moveToUci(pm[i])))

\* the en passant file value of board b went into the key h
EnPassantHashed(b, h) == \E f \in 0..7 : <<"enPassantFileHash", f>> \in h

\* C19 as claimed: computeHash XORs in the en passant file value exactly when
\* the board has an en passant target and a pawn of the side to move stands
\* where it could capture onto it; hence a board reached through applyMove
\* that offers no en passant capture gets the same key as the same position
\* loaded from a FEN without a target
EnPassantHashedOnlyWhenCapturable ==
    /\ EnPassantHashed(board, computeHash(board))
           <=> (board.enPassantTarget # -1 /\ EnPassantMoves(board) # <<>>)
    /\ (outcome = "moved" /\ EnPassantMoves(board) = <<>>) =>
           computeHash(board) = computeHash([board EXCEPT !.enPassantTarget = -1])

\* mirror(B): the colours of all pieces swapped, the board reflected vertically
\* and the side to move swapped (rights and en passant target follow)
swapColour(p) == IF isupper(p) THEN tolower(p) ELSE toupper(p)

mirrorBoard(b) ==
    [pieces |-> [i \in 0..63 |-> swapColour(b.pieces[mirror(i)])],
     whiteToMove |-> ~b.whiteToMove,
     canCastleK |-> b.canCastlek, canCastleQ |-> b.canCastleq,
     canCastlek |-> b.canCastleK, canCastleq |-> b.canCastleQ,
     enPassantTarget |-> IF b.enPassantTarget = -1 THEN -1 ELSE mirror(b.enPassantTarget),
     halfmoveClock |-> b.halfmoveClock, fullmoveNumber |-> b.fullmoveNumber]

\* the scores s of a board and t of its mirror image are opposite: exactly when
\* the king-safety term applies to neither king, else up to its rounding
OppositeScores(s, t, em) ==
    IF em.piece_mat[WHITE] <= 1200 /\ em.piece_mat[BLACK] <= 1200
    THEN s + t = 0
    ELSE s + t \in -2..2

\* C20 as claimed: for every board B with halfmove clock below 100,
\* evaluate(B) = -evaluate(mirror(B)), exactly when the enemy non-pawn material
\* is at most 1200 on both sides and up to the rounding of the king-safety
\* scaling otherwise
EvaluateAntisymmetric ==
    board.halfmoveClock < 100 =>
        OppositeScores(evaluate(EvalMatrixZero, board).score,
                       evaluate(EvalMatrixZero, mirrorBoard(board)).score,
                       evaluate(EvalMatrixZero, board).eval)

\* C22 as claimed: when the root position has a legal move, the move printed in
\* the bestmove line is one of the root's legal moves, for every timing of the
\* deadline and of the stop flag; bestmove 0000 is printed only when the root
\* has no legal move
BestMoveIsRootMove ==
    /\ (co.pc = "done" /\ co.reported = "bestMove") =>
           \E k \in 1..Len(co.rootMoves) : moveToUci(co.rootMoves[k]) = moveToUci(co.bestMove)
    /\ (co.pc = "done" /\ co.reported = "0000") => generateMoves(board) = <<>>

\* C21 as claimed: during a search every output record is written while
\* holding one mutex, so in no reachable state are two threads writing to
\* standard output at the same time
OneWriterAtATime == pool.pc # "off" => Cardinality(pool.writers) <= 1

\* C23: within one depth iteration no root move is searched by more than one
\* worker, and when neither the deadline nor the stop flag triggers, every root
\* move was searched exactly once when the iteration ends, whether there are
\* more or fewer workers than root moves
RootMovesSearchedOnce ==
    pool.pc \in {"run", "info", "bestmove", "done"} =>
        /\ \A i \in 1..Len(pool.rootMoves) : pool.searched[i] <= 1
        /\ (pool.pc = "info" /\ ~pool.stopped) =>
               \A i \in 1..Len(pool.rootMoves) : pool.searched[i] = 1

\* an undisturbed iteration ended with more workers than root moves
MoreWorkersThanRootMoves ==
    /\ pool.pc = "info" /\ ~pool.stopped
    /\ pool.threads > Len(pool.rootMoves)
    /\ \A i \in 1..Len(pool.rootMoves) : pool.searched[i] = 1

\* an undisturbed iteration ended with fewer workers than root moves
FewerWorkersThanRootMoves ==
    /\ pool.pc = "info" /\ ~pool.stopped
    /\ pool.threads < Len(pool.rootMoves)
    /\ \A i \in 1..Len(pool.rootMoves) : pool.searched[i] = 1

\* C24 as claimed: the root aggregate is written only while the merge mutex is
\* held and only when no worker is inside an alphabetaTimed search of the
\* current depth
MergeOnlyAfterAllSearched ==
    pool.pc = "run" =>
        \A t \in 1..Len(wk) :
            wk[t].pc = "merging" =>
                /\ pool.mergeMu = t
                /\ \A u \in 1..Len(wk) : wk[u].pc # "search"

\* C26 as claimed: during a search g_nodes never decreases, so the node total
\* of an info line is at least the total of every earlier info line of the
\* same search
NodeCounterNeverDecreases ==
    /\ [][(pool.pc # "off" /\ pool'.pc # "off") => pool'.g_nodes >= pool.g_nodes]_vars
    /\ [](pool.pc # "off" => pool.lastNodes >= pool.earlierNodes)

\* C25 as claimed: while the tasks of findBestMoveParallel run alphabetaTimed in
\* parallel, the atomic node counter is the only memory more than one task
\* writes: in no reachable state are two tasks writing the same
\* principal-variation vector
NoSharedVectorWrittenByTwoTasks ==
    pool.pc = "collect" => Cardinality(pool.pvWriters) <= 1

\* C27 as claimed: TransTable::store replaces the slot of the key if and only
\* if the slot is empty, or the new depth is strictly greater than the stored
\* depth, or the depths are equal and the new age is strictly greater than the
\* stored age; in every other case the slot is left unchanged
StoreReplacesDeeperOrNewer ==
    (pool.pc = "tables" /\ pool.last.op = "store") =>
        IF \/ pool.last.before.key = 0
           \/ pool.last.depth > pool.last.before.depth
           \/ (pool.last.depth = pool.last.before.depth /\ pool.last.age > pool.last.before.age)
        THEN pool.tt[pool.last.key % TableSize] =
                 [key |-> pool.last.key, score |-> int16_t(pool.last.score),
                  depth |-> pool.last.depth, flag |-> 0, best |-> Idle, age |-> pool.last.age]
        ELSE pool.tt[pool.last.key % TableSize] = pool.last.before

\* C28 as claimed: KillerTable::add(ply, m) leaves the slot unchanged when m
\* equals k1[ply], and otherwise, also when m equals k2[ply], makes m the new
\* k1[ply] and the old k1[ply] the new k2[ply]
AddedKillerBecomesFirst ==
    (pool.pc = "tables" /\ pool.last.op = "add") =>
        IF MoveEq(pool.last.m, pool.last.before.k1[pool.last.ply])
        THEN pool.killers = pool.last.before
        ELSE /\ pool.killers.k1[pool.last.ply] = pool.last.m
             /\ pool.killers.k2[pool.last.ply] = pool.last.before.k1[pool.last.ply]

\* the number of pieces on the board
PieceCount(b) == Cardinality({sq \in 0..63 : b.pieces[sq] # "."})

RECURSIVE CallsShrink(_)
\* every call quiescence(applyMove(b, m), ...) of the loop of quiescence(b, ...),
\* and every call below it, is made on a board with fewer pieces than its
\* caller's
CallsShrink(b) ==
    \A k \in 1..Len(generateCaptures(b)) :
        /\ PieceCount(applyMove(b, generateCaptures(b)[k]).board) < PieceCount(b)
        /\ CallsShrink(applyMove(b, generateCaptures(b)[k]).board)

CastlingEmittedWhenAllowed ==
    \A m \in CastlingInputs :
        CastlingPreconditions(board, m) =>
            \E k \in 1..Len(generatePseudoLegalMoves(board)) :
                /\ generatePseudoLegalMoves(board)[k].isCastling
                /\ MoveEq(generatePseudoLegalMoves(board)[k], m)

====
